---- MODULE Spec2Model ----
(***************************************************************************)
(* Model of the document chunking engine of azure-rag-financial-system:   *)
(* DocumentProcessor and the batch loop of AzureRAGPipeline in             *)
(* src/src/rag/azure_rag_pipeline.py, and of the company registry and the  *)
(* request retry loop of SECEdgarScraper in                                *)
(* src/src/scrapers/sec_edgar_scraper.py.                                  *)
(*                                                                         *)
(* Specifications: Spec (the processor's methods called one by one),       *)
(* SpecFile (process_file called twice), SpecClassify (the section         *)
(* classifier), SpecScraper (the registry), SpecSoup (the extractor        *)
(* walking a tree of nested elements), SpecFlat (the flat chunk_text one   *)
(* loop iteration at a time), SpecBatch (process_directory, one blocking   *)
(* call at a time), SpecCalls (two process_file calls interleaved),        *)
(* SpecRequest (_make_request, one blocking call at a time).  SpecScraper  *)
(* includes the admin endpoints of src/src/web/flask_app.py and of         *)
(* src/demo_admin_server.py, which write the class-level registry directly.*)
(*                                                                         *)
(* A text is a sequence of symbols.  Every symbol is the concrete string   *)
(* it stands for ("\n", " ", "[FINANCIAL_TABLE]", "SECTION_", a word...),   *)
(* so the Python string is the concatenation of the symbols and its        *)
(* character length is the sum of the symbols' lengths.                    *)
(***************************************************************************)
EXTENDS Integers, Sequences, FiniteSets, TLC

VARIABLES
    chunk_size,     \* DocumentProcessor.chunk_size
    chunk_overlap,  \* DocumentProcessor.chunk_overlap
    html,           \* the HTML document handed to the processor
    filename,       \* the name of the file it was read from
    pc,             \* which calls have been made on the processor so far
    text,           \* result of extract_text_from_html
    sections,       \* result of _identify_sections(text)
    schunks,        \* chunks of the structure-aware chunk_text (lines 164-171)
    fchunks,        \* chunks of the flat-window chunk_text (lines 356-393)
    metadata,       \* result of extract_metadata(filename)
    result,         \* value returned by the last process_file call
    fault,          \* the step of the last process_file call that raised
    prev,           \* value returned by the process_file call before the last
    title_in,       \* the title handed to _classify_section_type
    categories,     \* the values _classify_section_type returned for it, in call order
    COMPANIES,      \* SECEdgarScraper.COMPANIES, the class-level registry
    companies,      \* self.companies of every SECEdgarScraper constructed so far
    soup,           \* the parsed HTML tree extract_text_from_html walks
    visited,        \* how many elements of all_elements the loop has been through
    text_parts,     \* text_parts of extract_text_from_html
    processed_elements, \* processed_elements of extract_text_from_html
    emitters,       \* the elements that appended a block to text_parts
    start,          \* start of the flat chunk_text loop (lines 365-391)
    chunk_id,       \* chunk_id of the flat chunk_text loop
    directory,      \* the directory process_directory is called on
    html_files,     \* html_files of process_directory: the files the glob gave
    file_chunks,    \* chunks of process_directory: the chunks of the file in hand
    documents,      \* documents of process_directory: the search documents built
    file_pos,       \* how many files the loop of process_directory has been through
    total_chunks,   \* total_chunks of process_directory
    processed_files,    \* processed_files of process_directory
    uploaded_documents, \* uploaded_documents of process_directory
    attempted,      \* per process_file call of the loop: the file and what came of it
    summary,        \* the value process_directory returned
    batch_pc,       \* where process_directory is: "idle", "loop", "embed" or "returned"
    calls,          \* the locals of every process_file call running on the processor
    call_order,     \* the calls in the order in which they took their steps
    url,            \* url of the running _make_request call
    retries,        \* retries of the running _make_request call
    attempt,        \* attempt of the loop of _make_request
    events,         \* the sleeps and GET requests of the call, in order
    response,       \* the value _make_request returned
    req_pc          \* where the call is: "loop", "get", "except", "returned" or "raised"

\* the state of the DocumentProcessor and of the calls made on it
procVars == <<chunk_size, chunk_overlap, html, filename, pc, text, sections,
              schunks, fchunks, metadata, result, fault, prev>>

\* the state of AzureRAGPipeline.process_directory
batchVars == <<directory, html_files, file_chunks, documents, file_pos, total_chunks,
               processed_files, uploaded_documents, attempted, summary, batch_pc>>

\* the process_file calls that run on one processor at the same time
callVars == <<calls, call_order>>

\* the state of a SECEdgarScraper._make_request call
requestVars == <<url, retries, attempt, events, response, req_pc>>

\* the locals of the flat chunk_text loop
flatVars == <<start, chunk_id>>

\* the state of the section classifier, the scraper registry and the tree walk
classVars == <<title_in, categories>>
scraperVars == <<COMPANIES, companies>>
soupVars == <<soup, visited, text_parts, processed_elements, emitters>>

vars == <<chunk_size, chunk_overlap, html, filename, pc, text, sections,
          schunks, fchunks, metadata, result, fault, prev,
          classVars, scraperVars, soupVars, flatVars, batchVars, callVars, requestVars>>

-----------------------------------------------------------------------------
(* Symbols *)

NL == "\n"
SP == " "
TABLE_OPEN == "[FINANCIAL_TABLE]"
TABLE_CLOSE == "[/FINANCIAL_TABLE]"
SECTION_ == "SECTION_"
COLON == ":"
EQ == "="
EQ10 == "=========="
DASH == "-"
DASH10 == "----------"
PIPE == "|"
DOT == "."
USCORE == "_"

\* str.isspace() of a one-symbol string
IsSpace(s) == s \in {NL, SP}

\* symbols whose first character is in [A-Z]
UpperStart == {"Counterrevolutionaries", "Risk", "Factors", "Business",
               "Notes", "Document", "Content", "Ab", SECTION_,
               "Financial", "Statements", "Cash", "Flow", "Operations",
               "Legal", "Management", "Analysis", "MD&A", "Item", "Amount",
               "GOOGL", "MSFT"}

\* str.isdigit() of a one-symbol string, and its value
Digits == {"1", "2", "3", "4"}
DigitValue(s) == CASE s = "1" -> 1 [] s = "2" -> 2 [] s = "3" -> 3 [] s = "4" -> 4

-----------------------------------------------------------------------------
(* Python str operations on texts *)

RECURSIVE CharLen(_)
\* len(text)
CharLen(t) == IF t = <<>> THEN 0 ELSE Len(Head(t)) + CharLen(Tail(t))

\* text.strip()
Strip(t) ==
    LET keep == {i \in 1..Len(t) : ~IsSpace(t[i])}
    IN  IF keep = {} THEN <<>>
        ELSE LET lo == CHOOSE i \in keep : \A j \in keep : i <= j
                 hi == CHOOSE i \in keep : \A j \in keep : j <= i
             IN  SubSeq(t, lo, hi)

\* text.startswith(pre)
StartsWith(t, pre) == Len(t) >= Len(pre) /\ SubSeq(t, 1, Len(pre)) = pre

\* text.find(pat) + 1: the first position where pat occurs, 0 when none
Find(t, pat) ==
    LET hits == {i \in 1..(Len(t) - Len(pat) + 1) : SubSeq(t, i, i + Len(pat) - 1) = pat}
    IN  IF hits = {} THEN 0 ELSE CHOOSE i \in hits : \A j \in hits : i <= j

RECURSIVE Split(_, _)
\* text.split(sep)
Split(t, sep) ==
    LET i == Find(t, sep)
    IN  IF i = 0 THEN <<t>>
        ELSE <<SubSeq(t, 1, i - 1)>> \o Split(SubSeq(t, i + Len(sep), Len(t)), sep)

RECURSIVE Join(_, _)
\* sep.join(parts)
Join(parts, sep) ==
    IF parts = <<>> THEN <<>>
    ELSE IF Len(parts) = 1 THEN parts[1]
    ELSE parts[1] \o sep \o Join(Tail(parts), sep)

RECURSIVE Rep(_, _)
\* sym * n
Rep(sym, n) == IF n <= 0 THEN <<>> ELSE <<sym>> \o Rep(sym, n - 1)

Max(a, b) == IF a >= b THEN a ELSE b
Min(a, b) == IF a <= b THEN a ELSE b

-----------------------------------------------------------------------------
(* The tokenizer (tiktoken): a space is merged with the non-space symbol    *)
(* that follows it, every other symbol is a token of its own.              *)

RECURSIVE encode(_)
encode(t) ==
    IF t = <<>> THEN <<>>
    ELSE IF Len(t) >= 2 /\ t[1] = SP /\ ~IsSpace(t[2])
         THEN <<SubSeq(t, 1, 2)>> \o encode(SubSeq(t, 3, Len(t)))
         ELSE <<SubSeq(t, 1, 1)>> \o encode(Tail(t))

RECURSIVE decode(_)
decode(tokens) == IF tokens = <<>> THEN <<>> ELSE Head(tokens) \o decode(Tail(tokens))

ntokens(t) == Len(encode(t))

-----------------------------------------------------------------------------
(* HTML documents.  A document is the sequence of its structural elements  *)
(* in document order; an element holds its tag, its own text, its <th>     *)
(* texts and, per <tr> (or per <li>), the texts of its <td> cells.         *)

El(tag, txt, ths, rows) == [tag |-> tag, text |-> txt, ths |-> ths, rows |-> rows]

H1Risk == El("h1", <<"Risk", SP, "Factors">>, <<>>, <<>>)
H2Notes == El("h2", <<SP, "Notes", NL>>, <<>>, <<>>)
H3Ab == El("h3", <<"Ab">>, <<>>, <<>>)
PSent == El("p", <<NL, "Counterrevolutionaries", DOT, SP>>, <<>>, <<>>)
PTwo == El("div", <<"Counterrevolutionaries", DOT, SP, "Counterrevolutionaries", DOT>>, <<>>, <<>>)
PShort == El("p", <<"ab">>, <<>>, <<>>)
PEq == El("p", <<EQ, SP, "counterrevolutionaries">>, <<>>, <<>>)
Table3 == El("table", <<>>, <<>>,
             << <<<<"counterrevolutionaries">>>>, <<<<"incomprehensibilities">>>>,
                <<<<SP, "counterrevolutionaries">>>> >>)
TableTh == El("table", <<>>, << <<"Item">>, <<"Amount">> >>,
              << <<>>, << <<"ab">>, <<"cd">> >> >>)
TableSmall == El("table", <<>>, <<>>, << << <<"ab">>, <<"cd">> >> >>)
Table2 == El("table", <<>>, <<>>,
             << <<<<"pneumonoultramicroscopicsilicovolcanoconiosis">>>>,
                <<<<"counterrevolutionaries">>>> >>)
List2 == El("ul", <<>>, <<>>, << << <<"ab">> >>, << <<"cd">> >> >>)

\* element.get_text(strip=True) of an element holding one text node
get_text(txt) == Strip(txt)

RECURSIVE MapStrip(_)
MapStrip(texts) ==
    IF texts = <<>> THEN <<>> ELSE <<get_text(Head(texts))>> \o MapStrip(Tail(texts))

RECURSIVE NonEmpty(_)
NonEmpty(texts) ==
    IF texts = <<>> THEN <<>>
    ELSE (IF Head(texts) # <<>> THEN <<Head(texts)>> ELSE <<>>) \o NonEmpty(Tail(texts))

RECURSIVE TableRows(_)
\* lines 151-155: one line per <tr> that has <td> cells
TableRows(trs) ==
    IF trs = <<>> THEN <<>>
    ELSE LET cell_texts == MapStrip(Head(trs))
         IN  (IF cell_texts # <<>> THEN <<Join(cell_texts, <<SP, PIPE, SP>>)>> ELSE <<>>)
             \o TableRows(Tail(trs))

_extract_table_text(table) ==
    LET headers == NonEmpty(MapStrip(table.ths))
        head == IF headers # <<>>
                THEN <<Join(headers, <<SP, PIPE, SP>>), Rep(DASH10, 5)>>
                ELSE <<>>
    IN  Join(head \o TableRows(table.rows), <<NL>>)

RECURSIVE ListLines(_)
ListLines(lis) ==
    IF lis = <<>> THEN <<>>
    ELSE <<<<DASH, SP>> \o get_text(Head(lis)[1])>> \o ListLines(Tail(lis))

_extract_list_text(element) ==
    IF element.rows # <<>> THEN Join(ListLines(element.rows), <<NL>>) ELSE <<>>

HeadingLevel(tag) ==
    CASE tag = "h1" -> 1 [] tag = "h2" -> 2 [] tag = "h3" -> 3 [] tag = "h4" -> 4

\* lines 102-138: the text part an element contributes (none: <<>>)
ElementPart(element) ==
    IF element.tag \in {"h1", "h2", "h3", "h4"}
    THEN LET level == HeadingLevel(element.tag)
             header_text == get_text(element.text)
             marker == <<NL>> \o Rep(EQ10, Max(20, 60 - level * 10) \div 10) \o <<NL>>
         IN  IF header_text # <<>> /\ CharLen(header_text) > 3
             THEN <<marker \o <<SECTION_, ToString(level), COLON, SP>> \o header_text \o marker>>
             ELSE <<>>
    ELSE IF element.tag = "table"
    THEN LET table_text == _extract_table_text(element)
         IN  IF table_text # <<>> /\ CharLen(Strip(table_text)) > 50
             THEN <<<<NL, TABLE_OPEN, NL>> \o table_text \o <<NL, TABLE_CLOSE, NL>>>>
             ELSE <<>>
    ELSE IF element.tag \in {"p", "div"}
    THEN LET para_text == get_text(element.text)
         IN  IF para_text # <<>> /\ CharLen(para_text) > 20 THEN <<para_text>> ELSE <<>>
    ELSE LET list_text == _extract_list_text(element)
         IN  IF list_text # <<>> THEN <<list_text>> ELSE <<>>

RECURSIVE TextParts(_)
TextParts(elements) ==
    IF elements = <<>> THEN <<>>
    ELSE ElementPart(Head(elements)) \o TextParts(Tail(elements))

extract_text_from_html(html_content) == Join(TextParts(html_content), <<NL, NL>>)

-----------------------------------------------------------------------------
(* Nested HTML.  A tree is the sequence of its elements in document order;  *)
(* an element holds its tag, the position of its parent element (0: the   *)
(* document itself) and the text node it starts with.                      *)

Node(tag, parent, txt) == [tag |-> tag, parent |-> parent, text |-> txt]

RECURSIVE Parents(_, _)
\* element.parents, nearest first
Parents(tree, i) ==
    IF tree[i].parent = 0 THEN <<>>
    ELSE <<tree[i].parent>> \o Parents(tree, tree[i].parent)

\* the elements inside element i (every element is inside the document, 0)
Inside(tree, i) ==
    {j \in 1..Len(tree) : i = 0 \/ \E k \in 1..Len(Parents(tree, j)) : Parents(tree, j)[k] = i}

\* element.find_all(tags): the elements inside i with one of the tags, in
\* document order
find_all(tree, i, tags) ==
    SelectSeq([j \in 1..Len(tree) |-> j],
              LAMBDA j : j \in Inside(tree, i) /\ tree[j].tag \in tags)

\* element.find_parent(tag): the nearest enclosing element with the tag, 0 for None
find_parent(tree, i, tag) ==
    LET ps == SelectSeq(Parents(tree, i), LAMBDA j : tree[j].tag = tag)
    IN  IF ps = <<>> THEN 0 ELSE ps[1]

RECURSIVE StringsFrom(_, _, _)
\* the stripped, non-empty strings of element i and the elements inside it,
\* from position j on, one after the other without a separator
StringsFrom(tree, i, j) ==
    IF j > Len(tree) THEN <<>>
    ELSE (IF j = i \/ j \in Inside(tree, i) THEN Strip(tree[j].text) ELSE <<>>)
             \o StringsFrom(tree, i, j + 1)

\* element.get_text(strip=True) of an element of a tree
get_text_of(tree, i) == StringsFrom(tree, i, i)

\* the texts of the elements at the positions idxs
TextsOf(tree, idxs) == [k \in 1..Len(idxs) |-> get_text_of(tree, idxs[k])]

\* what the extractor reads of element i: its text, the texts of the <th>
\* inside it and, per <tr> inside it, the texts of the <td> inside that <tr>
\* (per <li>, the text of the item)
ElementOf(tree, i) ==
    LET trs == find_all(tree, i, {"tr"})
        lis == find_all(tree, i, {"li"})
    IN  El(tree[i].tag, get_text_of(tree, i),
           TextsOf(tree, find_all(tree, i, {"th"})),
           IF tree[i].tag = "table"
           THEN [k \in 1..Len(trs) |-> TextsOf(tree, find_all(tree, trs[k], {"td"}))]
           ELSE [k \in 1..Len(lis) |-> <<get_text_of(tree, lis[k])>>])

\* line 98: soup.find_all(['h1', 'h2', 'h3', 'h4', 'table', 'p', 'div', 'ul', 'ol'])
all_elements(tree) ==
    find_all(tree, 0, {"h1", "h2", "h3", "h4", "table", "p", "div", "ul", "ol"})

\* lines 118-122 and 129-133: some parent of the element is in processed_elements
parent_processed(tree, i, processed) ==
    \E k \in 1..Len(Parents(tree, i)) : Parents(tree, i)[k] \in processed

\* the element appends its block, if it has one, and is marked as processed
Emit(tree, i, st) ==
    LET part == ElementPart(ElementOf(tree, i))
    IN  [text_parts |-> st.text_parts \o part,
         processed_elements |-> st.processed_elements \cup {i},
         emitters |-> st.emitters \cup (IF part # <<>> THEN {i} ELSE {})]

\* lines 99-138: one iteration of the loop over all_elements, on element i
VisitElement(tree, i, st) ==
    IF i \in st.processed_elements THEN st
    ELSE IF tree[i].tag \in {"h1", "h2", "h3", "h4"} THEN Emit(tree, i, st)
    ELSE IF tree[i].tag = "table"
    THEN LET parent_table == find_parent(tree, i, "table")
         IN  IF parent_table # 0 /\ parent_table \notin st.processed_elements
             THEN st
             ELSE Emit(tree, i, st)
    ELSE IF parent_processed(tree, i, st.processed_elements) THEN st
    ELSE Emit(tree, i, st)

-----------------------------------------------------------------------------
(* Section Assembler and Section Classifier *)

\* str.lower() of a symbol
Lower(s) ==
    CASE s = "Risk" -> "risk" [] s = "Factors" -> "factors"
      [] s = "Business" -> "business" [] s = "Notes" -> "notes"
      [] s = "Document" -> "document" [] s = "Content" -> "content"
      [] s = "Counterrevolutionaries" -> "counterrevolutionaries"
      [] s = "Ab" -> "ab" [] s = SECTION_ -> "section_"
      [] s = "Financial" -> "financial" [] s = "Statements" -> "statements"
      [] s = "Cash" -> "cash" [] s = "Flow" -> "flow"
      [] s = "Operations" -> "operations" [] s = "Legal" -> "legal"
      [] s = "Management" -> "management" [] s = "Analysis" -> "analysis"
      [] s = "MD&A" -> "md&a"
      [] s = "Item" -> "item" [] s = "Amount" -> "amount"
      [] s = TABLE_OPEN -> "[financial_table]"
      [] s = TABLE_CLOSE -> "[/financial_table]"
      [] s = "GOOGL" -> "googl" [] s = "MSFT" -> "msft"
      [] s = "10K" -> "10k" [] s = "10K.htm" -> "10k.htm"
      [] OTHER -> s

\* the keywords of _classify_section_type that occur inside a lower-cased symbol
KeywordsIn(s) ==
    CASE s = "risk" -> {"risk"} [] s = "factors" -> {"factor"}
      [] s = "business" -> {"business"}
      [] s = "financial" -> {"financial"} [] s = "statements" -> {"statement"}
      [] s = "operations" -> {"operation"} [] s = "legal" -> {"legal"}
      [] s = "management" -> {"management"} [] s = "analysis" -> {"analysis"}
      [] s = "md&a" -> {"md&a"}
      [] s = "[financial_table]" -> {"financial"}
      [] s = "[/financial_table]" -> {"financial"}
      [] OTHER -> {}

\* keyword in title_lower
HasKeyword(title, keyword) ==
    IF keyword = "cash flow"
    THEN \E i \in 1..(Len(title) - 2) :
            /\ Lower(title[i]) = "cash" /\ title[i + 1] = SP /\ Lower(title[i + 2]) = "flow"
    ELSE \E i \in 1..Len(title) : keyword \in KeywordsIn(Lower(title[i]))

\* _classify_section_type with the mda test ahead of the business test
_classify_section_type_mda_first(title) ==
    IF \E k \in {"financial", "statement", "income", "balance", "cash flow"} : HasKeyword(title, k)
    THEN "financial"
    ELSE IF \E k \in {"risk", "factor"} : HasKeyword(title, k)
    THEN "risk"
    ELSE IF \E k \in {"management", "discussion", "analysis", "md&a"} : HasKeyword(title, k)
    THEN "mda"
    ELSE IF \E k \in {"business", "overview", "operation"} : HasKeyword(title, k)
    THEN "business"
    ELSE IF \E k \in {"legal", "proceeding", "litigation"} : HasKeyword(title, k)
    THEN "legal"
    ELSE "general"

_classify_section_type(title) ==
    IF \E k \in {"financial", "statement", "income", "balance", "cash flow"} : HasKeyword(title, k)
    THEN "financial"
    ELSE IF \E k \in {"risk", "factor"} : HasKeyword(title, k)
    THEN "risk"
    ELSE IF \E k \in {"business", "overview", "operation"} : HasKeyword(title, k)
    THEN "business"
    ELSE IF \E k \in {"legal", "proceeding", "litigation"} : HasKeyword(title, k)
    THEN "legal"
    ELSE IF \E k \in {"management", "discussion", "analysis", "md&a"} : HasKeyword(title, k)
    THEN "mda"
    ELSE "general"

\* str.isdigit() and int(str) of a text
IsDigitText(t) == t # <<>> /\ \A i \in 1..Len(t) : t[i] \in Digits
RECURSIVE IntOf(_)
IntOf(t) == IF t = <<>> THEN 0 ELSE IntOf(SubSeq(t, 1, Len(t) - 1)) * 10 + DigitValue(t[Len(t)])

\* line.startswith('='): the symbols whose first character is '='
StartsWithEq(line) == line # <<>> /\ line[1] \in {EQ, EQ10}

\* lines 183-188 and 199-204: the section flushed from the accumulators
Flushed(acc) ==
    IF Strip(acc.current_section) # <<>>
    THEN <<[title |-> acc.current_section_title,
            content |-> Strip(acc.current_section),
            level |-> acc.current_section_level,
            type |-> _classify_section_type(acc.current_section_title)]>>
    ELSE <<>>

\* lines 180-197: one iteration of the loop over the lines
SectionLine(acc, raw) ==
    LET line == Strip(raw)
    IN  IF StartsWith(line, <<SECTION_>>)
        THEN LET level_match == Split(Split(line, <<SECTION_>>)[2], <<COLON>>)[1]
                 colon == Find(line, <<COLON>>)
             IN  [sections |-> acc.sections \o Flushed(acc),
                  current_section |-> <<>>,
                  current_section_title |->
                      IF colon # 0 THEN Strip(SubSeq(line, colon + 1, Len(line))) ELSE line,
                  current_section_level |->
                      IF IsDigitText(level_match) THEN IntOf(level_match) ELSE 1]
        ELSE IF StartsWithEq(line)
        THEN acc
        ELSE IF line # <<>>
        THEN [acc EXCEPT !.current_section = @ \o line \o <<NL>>]
        ELSE acc

RECURSIVE SectionScan(_, _)
SectionScan(acc, lines) ==
    IF lines = <<>> THEN acc ELSE SectionScan(SectionLine(acc, Head(lines)), Tail(lines))

_identify_sections(t) ==
    LET acc == SectionScan([sections |-> <<>>, current_section |-> <<>>,
                            current_section_title |-> <<>>, current_section_level |-> 0],
                           Split(t, <<NL>>))
        found == acc.sections \o Flushed(acc)
    IN  IF found = <<>>
        THEN <<[title |-> <<"Document", SP, "Content">>, content |-> t,
                level |-> 1, type |-> "general"]>>
        ELSE found

-----------------------------------------------------------------------------
(* Chunk Splitter.  A dict is a function from its keys; d.update(m) is      *)
(* m @@ d.  size is self.chunk_size.                                        *)

\* d.get(key, default)
Get(d, key, default) == IF key \in DOMAIN d THEN d[key] ELSE default

\* ChunkId with the processing time made part of the id
ChunkId_dated(md, id0) ==
    Get(md, "company", <<"unknown">>) \o <<USCORE>> \o Get(md, "year", <<"unknown">>)
        \o <<USCORE, ToString(id0), USCORE, Get(md, "processed_date", "")>>

\* line 335: the f-string of the chunk id
ChunkId(md, id0) ==
    Get(md, "company", <<"unknown">>) \o <<USCORE>> \o Get(md, "year", <<"unknown">>)
        \o <<USCORE, ToString(id0)>>

_create_chunk(t, md) ==
    LET chunk == [text |-> Strip(t), token_count |-> ntokens(t)]
        tagged == IF DOMAIN md # {} THEN md @@ chunk ELSE chunk
    IN  ("id" :> ChunkId(md, Get(md, "chunk_id", 0))) @@ tagged

RECURSIVE TableSpans(_)
\* re.findall(r'\[FINANCIAL_TABLE\](.*?)\[/FINANCIAL_TABLE\]', content, re.DOTALL)
TableSpans(content) ==
    LET open == Find(content, <<TABLE_OPEN>>)
        rest == SubSeq(content, open + 1, Len(content))
        close == Find(rest, <<TABLE_CLOSE>>)
    IN  IF open = 0 \/ close = 0 THEN <<>>
        ELSE <<SubSeq(rest, 1, close - 1)>> \o TableSpans(SubSeq(rest, close + 1, Len(rest)))

RECURSIVE RemoveTableSpans(_)
\* re.sub(r'\[FINANCIAL_TABLE\].*?\[/FINANCIAL_TABLE\]', '', content, flags=re.DOTALL)
RemoveTableSpans(content) ==
    LET open == Find(content, <<TABLE_OPEN>>)
        rest == SubSeq(content, open + 1, Len(content))
        close == Find(rest, <<TABLE_CLOSE>>)
    IN  IF open = 0 \/ close = 0 THEN content
        ELSE SubSeq(content, 1, open - 1)
                 \o RemoveTableSpans(SubSeq(rest, close + 1, Len(rest)))

\* RowStep losing the row that did not fit into the flushed buffer
RowStep_dropping(st, row, md, size) ==
    LET row_tokens == ntokens(row)
    IN  IF st.current_tokens + row_tokens > size
        THEN [chunks |-> st.chunks \o
                  (IF st.current_chunk # <<>>
                   THEN <<_create_chunk(Strip(st.current_chunk), md)>> ELSE <<>>),
              current_chunk |-> <<>>,
              current_tokens |-> 0]
        ELSE [chunks |-> st.chunks,
              current_chunk |-> st.current_chunk \o row \o <<NL>>,
              current_tokens |-> st.current_tokens + row_tokens]

\* RowStep flushing the buffer without looking whether it holds a row
RowStep_flushing_empty(st, row, md, size) ==
    LET row_tokens == ntokens(row)
    IN  IF st.current_tokens + row_tokens > size
        THEN [chunks |-> Append(st.chunks, _create_chunk(Strip(st.current_chunk), md)),
              current_chunk |-> row \o <<NL>>,
              current_tokens |-> row_tokens]
        ELSE [chunks |-> st.chunks,
              current_chunk |-> st.current_chunk \o row \o <<NL>>,
              current_tokens |-> st.current_tokens + row_tokens]

\* lines 265-274: one iteration of the loop over the rows of a table
RowStep(st, row, md, size) ==
    LET row_tokens == ntokens(row)
    IN  IF st.current_tokens + row_tokens > size
        THEN [chunks |-> st.chunks \o
                  (IF st.current_chunk # <<>>
                   THEN <<_create_chunk(Strip(st.current_chunk), md)>> ELSE <<>>),
              current_chunk |-> row \o <<NL>>,
              current_tokens |-> row_tokens]
        ELSE [chunks |-> st.chunks,
              current_chunk |-> st.current_chunk \o row \o <<NL>>,
              current_tokens |-> st.current_tokens + row_tokens]

RECURSIVE RowLoop(_, _, _, _)
RowLoop(st, rows, md, size) ==
    IF rows = <<>> THEN st ELSE RowLoop(RowStep(st, Head(rows), md, size), Tail(rows), md, size)

\* TableChunks handing the last buffer of rows to _create_chunk as it is,
\* with the line end after its last row
TableChunks_flushing_untrimmed(span, i, section, md, size) ==
    LET table_content == Strip(span)
        chunk_metadata ==
            md @@ [section_title |-> section.title,
                         section_level |-> section.level,
                         section_type |-> section.type,
                         content_type |-> "financial_table",
                         table_index |-> i]
    IN  IF table_content = <<>> THEN <<>>
        ELSE IF ntokens(table_content) <= size
        THEN <<_create_chunk(table_content, chunk_metadata)>>
        ELSE LET st == RowLoop([chunks |-> <<>>, current_chunk |-> <<>>, current_tokens |-> 0],
                               Split(table_content, <<NL>>), chunk_metadata, size)
             IN  st.chunks \o
                 (IF Strip(st.current_chunk) # <<>>
                  THEN <<_create_chunk(st.current_chunk, chunk_metadata)>> ELSE <<>>)

\* lines 246-276: the chunks of the i-th table span (i from 0)
TableChunks(span, i, section, md, size) ==
    LET table_content == Strip(span)
        chunk_metadata ==
            md @@ [section_title |-> section.title,
                         section_level |-> section.level,
                         section_type |-> section.type,
                         content_type |-> "financial_table",
                         table_index |-> i]
    IN  IF table_content = <<>> THEN <<>>
        ELSE IF ntokens(table_content) <= size
        THEN <<_create_chunk(table_content, chunk_metadata)>>
        ELSE LET st == RowLoop([chunks |-> <<>>, current_chunk |-> <<>>, current_tokens |-> 0],
                               Split(table_content, <<NL>>), chunk_metadata, size)
             IN  st.chunks \o
                 (IF Strip(st.current_chunk) # <<>>
                  THEN <<_create_chunk(Strip(st.current_chunk), chunk_metadata)>> ELSE <<>>)

RECURSIVE TablesLoop(_, _, _, _, _)
TablesLoop(tables, i, section, md, size) ==
    IF i >= Len(tables) THEN <<>>
    ELSE TableChunks(tables[i + 1], i, section, md, size)
             \o TablesLoop(tables, i + 1, section, md, size)

_chunk_financial_tables(content, section, md, size) ==
    TablesLoop(TableSpans(content), 0, section, md, size)

\* the symbols that end in one of . ! ?
EndsSentence(s) == s \in {DOT}

RECURSIVE SplitSentences(_)
\* re.split(r'(?<=[.!?])\s+(?=[A-Z])', paragraph)
SplitSentences(paragraph) ==
    LET n == Len(paragraph)
        cuts == {i \in 1..n : /\ EndsSentence(paragraph[i])
                              /\ \E j \in (i + 1)..(n - 1) :
                                    /\ \A k \in (i + 1)..j : IsSpace(paragraph[k])
                                    /\ paragraph[j + 1] \in UpperStart}
    IN  IF cuts = {} THEN <<paragraph>>
        ELSE LET i == CHOOSE c \in cuts : \A d \in cuts : c <= d
                 j == CHOOSE e \in (i + 1)..(n - 1) :
                          /\ \A k \in (i + 1)..e : IsSpace(paragraph[k])
                          /\ ~IsSpace(paragraph[e + 1])
             IN  <<SubSeq(paragraph, 1, i)>> \o SplitSentences(SubSeq(paragraph, j + 1, n))

\* UnitStep that never flushes the buffer before the end of the section
UnitStep_appending(st, unit, joiner, md, size) ==
    [chunks |-> st.chunks,
     current_chunk |-> IF st.current_chunk # <<>>
                       THEN st.current_chunk \o joiner \o unit ELSE unit,
     current_tokens |-> st.current_tokens + ntokens(unit)]

\* lines 300-311 and 313-323: add one unit (a sentence, joined with a space,
\* or a paragraph, joined with a blank line) to the running buffer
UnitStep(st, unit, joiner, md, size) ==
    LET unit_tokens == ntokens(unit)
    IN  IF st.current_tokens + unit_tokens > size
        THEN [chunks |-> st.chunks \o
                  (IF st.current_chunk # <<>>
                   THEN <<_create_chunk(st.current_chunk, md)>> ELSE <<>>),
              current_chunk |-> unit,
              current_tokens |-> unit_tokens]
        ELSE [chunks |-> st.chunks,
              current_chunk |-> IF st.current_chunk # <<>>
                                THEN st.current_chunk \o joiner \o unit ELSE unit,
              current_tokens |-> st.current_tokens + unit_tokens]

RECURSIVE SentenceLoop(_, _, _, _)
SentenceLoop(st, sentences, md, size) ==
    IF sentences = <<>> THEN st
    ELSE SentenceLoop(UnitStep(st, Head(sentences), <<SP>>, md, size), Tail(sentences), md, size)

\* ParagraphStep flushing the buffer before every paragraph that fits
ParagraphStep_flushing(st, raw, md, size) ==
    LET paragraph == Strip(raw)
        flushed == [chunks |-> st.chunks \o
                        (IF st.current_chunk # <<>>
                         THEN <<_create_chunk(st.current_chunk, md)>> ELSE <<>>),
                    current_chunk |-> <<>>, current_tokens |-> 0]
    IN  IF paragraph = <<>> THEN st
        ELSE IF ntokens(paragraph) > size
        THEN SentenceLoop(st, SplitSentences(paragraph), md, size)
        ELSE UnitStep(flushed, paragraph, <<NL, NL>>, md, size)

\* lines 293-323: one iteration of the loop over the paragraphs
ParagraphStep(st, raw, md, size) ==
    LET paragraph == Strip(raw)
    IN  IF paragraph = <<>> THEN st
        ELSE IF ntokens(paragraph) > size
        THEN SentenceLoop(st, SplitSentences(paragraph), md, size)
        ELSE UnitStep(st, paragraph, <<NL, NL>>, md, size)

RECURSIVE ParagraphLoop(_, _, _, _)
ParagraphLoop(st, paragraphs, md, size) ==
    IF paragraphs = <<>> THEN st
    ELSE ParagraphLoop(ParagraphStep(st, Head(paragraphs), md, size), Tail(paragraphs), md, size)

_chunk_regular_content(content, section, md, size) ==
    LET chunk_metadata ==
            md @@ [section_title |-> section.title,
                         section_level |-> section.level,
                         section_type |-> section.type,
                         content_type |-> "text"]
        st == ParagraphLoop([chunks |-> <<>>, current_chunk |-> <<>>, current_tokens |-> 0],
                            Split(content, <<NL, NL>>), chunk_metadata, size)
    IN  st.chunks \o
        (IF st.current_chunk # <<>> THEN <<_create_chunk(st.current_chunk, chunk_metadata)>>
         ELSE <<>>)

\* _chunk_section without the re.sub of line 235
_chunk_section_keeps_tables(section, md, size) ==
    LET has_table == Find(section.content, <<TABLE_OPEN>>) # 0
        table_chunks == IF has_table
                        THEN _chunk_financial_tables(section.content, section, md, size)
                        ELSE <<>>
    IN  table_chunks \o
        (IF Strip(section.content) # <<>>
         THEN _chunk_regular_content(section.content, section, md, size)
         ELSE <<>>)

\* _chunk_section appending the prose chunks before the table chunks
_chunk_section_text_first(section, md, size) ==
    LET has_table == Find(section.content, <<TABLE_OPEN>>) # 0
        table_chunks == IF has_table
                        THEN _chunk_financial_tables(section.content, section, md, size)
                        ELSE <<>>
        content == IF has_table THEN RemoveTableSpans(section.content) ELSE section.content
    IN  (IF Strip(content) # <<>> THEN _chunk_regular_content(content, section, md, size)
         ELSE <<>>) \o table_chunks

_chunk_section(section, md, size) ==
    LET has_table == Find(section.content, <<TABLE_OPEN>>) # 0
        table_chunks == IF has_table
                        THEN _chunk_financial_tables(section.content, section, md, size)
                        ELSE <<>>
        content == IF has_table THEN RemoveTableSpans(section.content) ELSE section.content
    IN  table_chunks \o
        (IF Strip(content) # <<>> THEN _chunk_regular_content(content, section, md, size)
         ELSE <<>>)

RECURSIVE JoinContents(_)
JoinContents(secs) ==
    IF secs = <<>> THEN <<>>
    ELSE IF Len(secs) = 1 THEN secs[1].content
    ELSE secs[1].content \o <<NL, NL>> \o JoinContents(Tail(secs))

\* SectionsLoop with the buffer of a section running on into the sections
\* after it
SectionsLoop_carrying(secs, md, size) ==
    IF secs = <<>> THEN <<>>
    ELSE _chunk_section([Head(secs) EXCEPT !.content = JoinContents(secs)], md, size)

RECURSIVE SectionsLoop(_, _, _)
SectionsLoop(secs, md, size) ==
    IF secs = <<>> THEN <<>>
    ELSE _chunk_section(Head(secs), md, size) \o SectionsLoop(Tail(secs), md, size)

\* lines 164-171: the first definition of chunk_text in the class body
chunk_text_structure_aware(t, md, size) ==
    SectionsLoop(_identify_sections(t), md, size)

-----------------------------------------------------------------------------
(* Metadata Tagger, flat-window splitter and process_file *)

\* extract_metadata defaulting the filename fields to empty strings
extract_metadata_defaults(fname, now) ==
    LET base == [filename |-> fname, processed_date |-> now]
        parts == Split(fname, <<USCORE>>)
    IN  IF Find(fname, <<USCORE>>) # 0 /\ Len(parts) >= 3
        THEN [company |-> parts[1], filing_type |-> parts[2], year |-> parts[3]] @@ base
        ELSE [company |-> <<>>, filing_type |-> <<>>, year |-> <<>>] @@ base

extract_metadata(fname, now) ==
    LET base == [filename |-> fname, processed_date |-> now]
        parts == Split(fname, <<USCORE>>)
    IN  IF Find(fname, <<USCORE>>) # 0 /\ Len(parts) >= 3
        THEN [company |-> parts[1], filing_type |-> parts[2], year |-> parts[3]] @@ base
        ELSE base

\* tokens[a:b] of Python: a negative index counts from the end, an index
\* outside the list is moved to its nearest end
SliceIndex(i, n) == IF i < 0 THEN Max(i + n, 0) ELSE Min(i, n)

PySlice(seq, a, b) ==
    LET from == SliceIndex(a, Len(seq))
        to == SliceIndex(b, Len(seq))
    IN  IF from < to THEN SubSeq(seq, from + 1, to) ELSE <<>>

\* lines 366-389: the body of the loop up to chunks.append: the window that
\* starts at token position s0, as the chunk with ordinal id0
FlatWindow(tokens, md, size, s0, id0) ==
    LET end == Min(s0 + size, Len(tokens))
        chunk_tokens == PySlice(tokens, s0, end)
        window == decode(chunk_tokens)
        chunk_metadata ==
            [chunk_id |-> id0, start_token |-> s0, end_token |-> end,
             token_count |-> Len(chunk_tokens),
             chunk_text_length |-> CharLen(window)] @@ md
    IN  [text |-> window, metadata |-> chunk_metadata, id |-> ChunkId(md, id0)]

RECURSIVE FlatLoop_disjoint(_, _, _, _, _, _)
\* FlatLoop moving the window on by chunk_size, without overlap
FlatLoop_disjoint(tokens, md, size, overlap, s0, id0) ==
    IF ~(s0 < Len(tokens)) THEN <<>>
    ELSE <<FlatWindow(tokens, md, size, s0, id0)>>
             \o FlatLoop_disjoint(tokens, md, size, overlap, s0 + size, id0 + 1)

RECURSIVE FlatLoop(_, _, _, _, _, _)
\* lines 365-391: the windows from position s0 on (id0 is their ordinal)
FlatLoop(tokens, md, size, overlap, s0, id0) ==
    IF ~(s0 < Len(tokens)) THEN <<>>
    ELSE <<FlatWindow(tokens, md, size, s0, id0)>>
             \o FlatLoop(tokens, md, size, overlap, s0 + size - overlap, id0 + 1)

\* chunk_text building its first window ahead of the test of the loop
chunk_text_window_first(t, md, size, overlap) ==
    <<FlatWindow(encode(t), md, size, 0, 0)>>
        \o FlatLoop(encode(t), md, size, overlap, size - overlap, 1)

\* lines 356-393: the second definition of chunk_text in the class body, which
\* is the one the name chunk_text is bound to
chunk_text(t, md, size, overlap) == FlatLoop(encode(t), md, size, overlap, 0, 0)

\* the steps of process_file that can raise
Faults == {"read", "decode"}

\* process_file handing back the windows built before decode raised
process_file_partial(html_content, fname, now, flt, size, overlap) ==
    LET full == chunk_text(extract_text_from_html(html_content),
                           extract_metadata(fname, now), size, overlap)
    IN  IF flt = "none" THEN full
        ELSE IF flt = "decode" /\ full # <<>> THEN SubSeq(full, 1, Len(full) - 1)
        ELSE <<>>

\* lines 395-413; flt is the step that raises, "none" when no step does
process_file(html_content, fname, now, flt, size, overlap) ==
    IF flt # "none" THEN <<>>
    ELSE chunk_text(extract_text_from_html(html_content), extract_metadata(fname, now),
                    size, overlap)

-----------------------------------------------------------------------------
(* The company registry of SECEdgarScraper (src/src/scrapers/sec_edgar_scraper.py) *)

\* lines 45-58: COMPANIES as the class body sets it
InitialCompanies ==
    [s \in {"GOOGL", "MSFT", "NVDA"} |->
        CASE s = "GOOGL" -> [name |-> "Alphabet Inc.", cik |-> "1652044"]
          [] s = "MSFT" -> [name |-> "Microsoft Corporation", cik |-> "789019"]
          [] s = "NVDA" -> [name |-> "NVIDIA Corporation", cik |-> "1045810"]]

\* str.upper() of a stock symbol
Upper(s) ==
    CASE s = "aapl" -> "AAPL" [] s = "Aapl" -> "AAPL" [] s = "msft" -> "MSFT"
      [] s = " aapl " -> " AAPL "
      [] OTHER -> s

\* str.strip() of a field of a request body
StripField(s) ==
    CASE s = " aapl " -> "aapl" [] s = "  " -> "" [] s = " " -> ""
      [] s = " Apple Inc. " -> "Apple Inc."
      [] OTHER -> s

\* d[key] = value
SetItem(d, key, value) == (key :> value) @@ d

\* add_company storing the symbol as it was given
add_company_as_given(self, symbol, name, cik) ==
    [companies |-> [companies EXCEPT ![self] = SetItem(@, symbol, [name |-> name, cik |-> cik])],
     COMPANIES |-> SetItem(COMPANIES, symbol, [name |-> name, cik |-> cik])]

\* lines 100-118: the two registries after self.add_company(symbol, name, cik)
add_company(self, symbol, name, cik) ==
    [companies |-> [companies EXCEPT ![self] =
                        SetItem(@, Upper(symbol), [name |-> name, cik |-> cik])],
     COMPANIES |-> SetItem(COMPANIES, Upper(symbol), [name |-> name, cik |-> cik])]

\* lines 120-127: self.companies.copy()
get_available_companies(self) == [s \in DOMAIN companies[self] |-> companies[self][s]]

-----------------------------------------------------------------------------
(* Bounds and inputs *)

MaxElems == 3
MaxChunkSize == 4
MaxOverlap == 1
MaxFileElems == 2

\* the elements documents are built from, and elements that occur only alone
\* or right after a heading
Elements == {H1Risk, PSent, PEq, Table3, List2}
OtherElements == {H2Notes, H3Ab, PTwo, PShort, TableTh, TableSmall, Table2}

\* documents of two sections that hold tables and prose
TwoSectionDocuments == { <<PSent, Table3, H1Risk, PSent>>,
                         <<Table3, PSent, H1Risk, Table3, PSent, Table2>> }

Documents ==
    UNION {[1..n -> Elements] : n \in 0..MaxElems}
        \cup {<<e>> : e \in OtherElements}
        \cup {<<e, PSent>> : e \in OtherElements}
        \cup TwoSectionDocuments

\* the documents of the files process_file is run on
FileDocuments == {d \in Documents : Len(d) <= MaxFileElems}

Filenames == { <<"GOOGL", USCORE, "10K", USCORE, "2023", USCORE, "0001.htm">>,
               <<"MSFT", USCORE, "10K.htm">>,
               <<"report.htm">> }

Dates == {"2024-01-01T00:00:00+00:00", "2025-06-30T12:00:00+00:00"}

\* texts a caller of the public chunk_text, or of _create_chunk, passes in
\* place of an extracted text
CallerTexts == { <<SP>>, <<NL>>, <<SP, NL, NL>>,
                 <<TABLE_OPEN, NL, SP, NL, TABLE_CLOSE>>,
                 <<SP, "ab", SP, "cd", NL>> }

MaxTitleWords == 2
MaxFlatOverlap == 3
MaxFiles == 3

\* the files of a directory: the document in the file, its name, the step of
\* process_file that raises on it ("none": no step does)
File(doc, name, flt) == [doc |-> doc, name |-> name, flt |-> flt]
BatchFiles ==
    { File(<<PSent>>, <<"GOOGL", USCORE, "10K", USCORE, "2023", USCORE, "0001.htm">>, "none"),
      File(<<PSent, Table3>>, <<"MSFT", USCORE, "10K.htm">>, "none"),
      File(<<>>, <<"report.htm">>, "none"),
      File(<<PSent>>, <<"report.htm">>, "read"),
      File(<<PSent, PSent>>, <<"report.html">>, "none"),
      File(<<PSent>>, <<"notes.txt">>, "none") }
DirectoryPaths == {"data/filings"}
Directories ==
    { [path |-> p, exists |-> FALSE, entries |-> <<>>] : p \in DirectoryPaths }
    \cup { [path |-> p, exists |-> TRUE, entries |-> es] :
               p \in DirectoryPaths, es \in UNION {[1..n -> BatchFiles] : n \in 0..MaxFiles} }
MaxFlatWords == 4
MaxIterations == 5

\* texts of n words, n tokens each
FlatWords == <<"ab", "cd", "ef", "gh", "ij", "kl", "mn", "op">>
FlatTexts ==
    { Join([i \in 1..n |-> <<FlatWords[i]>>], <<SP>>) : n \in 0..Min(MaxFlatWords, Len(FlatWords)) }
MaxScrapers == 2
MaxBlocks == 2

\* HTML fragments with elements inside elements
TreeP == <<Node("p", 0, <<"Counterrevolutionaries", DOT>>)>>
TreeH == <<Node("h1", 0, <<"Risk", SP, "Factors">>)>>
TreeList == <<Node("ul", 0, <<>>), Node("li", 1, <<"ab">>), Node("li", 1, <<"cd">>)>>
TreeTable ==
    <<Node("table", 0, <<>>), Node("tr", 1, <<>>),
      Node("td", 2, <<"counterrevolutionaries">>),
      Node("td", 2, <<"incomprehensibilities">>), Node("td", 2, <<"ab">>)>>
TreeNested ==
    <<Node("table", 0, <<>>), Node("tr", 1, <<>>),
      Node("td", 2, <<"incomprehensibilities">>), Node("td", 2, <<NL>>),
      Node("table", 4, <<>>), Node("tr", 5, <<>>),
      Node("td", 6, <<"counterrevolutionaries">>),
      Node("td", 6, <<"incomprehensibilities">>), Node("td", 6, <<"cd">>)>>
TreeTableP ==
    <<Node("table", 0, <<>>), Node("tr", 1, <<>>), Node("td", 2, <<>>),
      Node("p", 3, <<"Counterrevolutionaries", DOT>>),
      Node("td", 2, <<"counterrevolutionaries">>), Node("td", 2, <<"ab">>)>>
TreeDivHeading ==
    <<Node("div", 0, <<NL>>), Node("h2", 1, <<"Risk", SP, "Factors">>),
      Node("p", 1, <<"Counterrevolutionaries", DOT>>)>>
TreeDivTable ==
    <<Node("div", 0, <<>>), Node("table", 1, <<>>), Node("tr", 2, <<>>),
      Node("td", 3, <<"counterrevolutionaries">>),
      Node("td", 3, <<"incomprehensibilities">>), Node("td", 3, <<"ab">>)>>
TreeDivList ==
    <<Node("div", 0, <<"ab">>), Node("ol", 1, <<>>), Node("li", 2, <<"cd">>)>>

Blocks == {TreeP, TreeH, TreeList, TreeTable, TreeNested, TreeTableP,
           TreeDivHeading, TreeDivTable, TreeDivList}

RECURSIVE ConcatBlocks(_)
\* the fragments one after the other under the document
ConcatBlocks(bs) ==
    IF bs = <<>> THEN <<>>
    ELSE LET front == ConcatBlocks(SubSeq(bs, 1, Len(bs) - 1))
             last == bs[Len(bs)]
         IN  front \o [k \in 1..Len(last) |->
                          [last[k] EXCEPT !.parent = IF @ = 0 THEN 0 ELSE @ + Len(front)]]

Soups == {ConcatBlocks(bs) : bs \in UNION {[1..n -> Blocks] : n \in 0..MaxBlocks}}

\* the documents of the calls that run at the same time
CallSoups == {ConcatBlocks(<<TreeH, TreeP>>), TreeDivTable, TreeTableP, TreeList}
CallIds == {1, 2}

MaxRetries == 3

\* the URLs _make_request is called with (lines 192 and 277)
Urls == {"https://www.sec.gov/cgi-bin/browse-edgar", "https://www.sec.gov/Archives/edgar/data"}

\* what a GET attempt can come to: a response with a good status, a
\* requests.exceptions.RequestException (a bad status raised by
\* raise_for_status, a connection error, a timeout), or another exception
RequestExceptions == {"HTTPError", "ConnectionError", "Timeout"}
Outcomes == {"ok", "Exception"} \cup RequestExceptions

\* the arguments add_company is called with
AddCalls ==
    { [symbol |-> "aapl", name |-> "Apple Inc.", cik |-> "0000320193"],
      [symbol |-> "AAPL", name |-> "Apple Inc.", cik |-> "0000320193"],
      [symbol |-> "msft", name |-> "Microsoft Corp.", cik |-> "0000789019"] }

\* the JSON bodies posted to the admin endpoints: complete, with a padded
\* symbol, with an empty symbol, with an empty name, and without a symbol
AdminBodies ==
    { [symbol |-> "aapl", name |-> "Apple Inc.", cik |-> "0000320193"],
      [symbol |-> " aapl ", name |-> "Apple Inc.", cik |-> "0000320193"],
      [symbol |-> "", name |-> "Apple Inc.", cik |-> "0000320193"],
      [symbol |-> "aapl", name |-> "", cik |-> "0000320193"],
      [name |-> "Apple Inc.", cik |-> "0000320193"] }

\* the words section titles are made of
TitleWords == {"Financial", "Statements", "Cash", "Flow", "Risk", "Factors",
               "Business", "Operations", "Legal", "Management", "Analysis",
               "MD&A", "Notes", "cash", "flow"}

\* the titles of up to MaxTitleWords words, separated by single spaces
Titles ==
    {Join([i \in 1..Len(ws) |-> <<ws[i]>>], <<SP>>) :
        ws \in UNION {[1..n -> TitleWords] : n \in 0..MaxTitleWords}}

-----------------------------------------------------------------------------
(* The processor as a state machine *)

\* the state after DocumentProcessor(chunk_size, chunk_overlap), before any call
Constructed ==
    /\ chunk_size \in 1..MaxChunkSize
    /\ chunk_overlap = Min(MaxOverlap, chunk_size - 1)
    /\ filename \in Filenames
    /\ pc = "new"
    /\ text = <<>>
    /\ sections = <<>>
    /\ schunks = <<>>
    /\ fchunks = <<>>
    /\ metadata = <<>>
    /\ result = <<>>
    /\ fault = "none"
    /\ prev = [called |-> FALSE, chunks |-> <<>>, date |-> ""]

\* a processor on which no document method is called
ProcessorIdle ==
    /\ chunk_size = 1
    /\ chunk_overlap = 0
    /\ html = <<>>
    /\ filename = <<"report.htm">>
    /\ pc = "new"
    /\ text = <<>>
    /\ sections = <<>>
    /\ schunks = <<>>
    /\ fchunks = <<>>
    /\ metadata = <<>>
    /\ result = <<>>
    /\ fault = "none"
    /\ prev = [called |-> FALSE, chunks |-> <<>>, date |-> ""]

\* no title has been classified
ClassifierIdle == title_in = <<>> /\ categories = <<>>

\* the scraper class is loaded and no scraper has been constructed
ScraperIdle == COMPANIES = InitialCompanies /\ companies = <<>>

\* extract_text_from_html is not walking a tree
SoupIdle ==
    /\ soup = <<>>
    /\ visited = 0
    /\ text_parts = <<>>
    /\ processed_elements = {}
    /\ emitters = {}

\* process_directory has not been called
BatchIdle ==
    /\ directory = [path |-> "", exists |-> FALSE, entries |-> <<>>]
    /\ html_files = <<>>
    /\ file_chunks = <<>>
    /\ documents = <<>>
    /\ file_pos = 0
    /\ total_chunks = 0
    /\ processed_files = 0
    /\ uploaded_documents = 0
    /\ attempted = <<>>
    /\ summary = <<>>
    /\ batch_pc = "idle"

\* no process_file call runs next to another
CallsIdle == calls = <<>> /\ call_order = <<>>

\* _make_request has not been called
RequestIdle ==
    /\ url = ""
    /\ retries = 0
    /\ attempt = 0
    /\ events = <<>>
    /\ response = "None"
    /\ req_pc = "idle"

\* the flat chunk_text loop is not running
FlatIdle == start = 0 /\ chunk_id = 0

Init == Constructed /\ html \in Documents /\ ClassifierIdle /\ ScraperIdle /\ SoupIdle /\ FlatIdle /\ BatchIdle /\ CallsIdle /\ RequestIdle

InitFile ==
    Constructed /\ html \in FileDocuments /\ ClassifierIdle /\ ScraperIdle /\ SoupIdle /\ FlatIdle /\ BatchIdle /\ CallsIdle /\ RequestIdle

ExtractTextFromHtml ==
    /\ pc = "new"
    /\ text' = extract_text_from_html(html)
    /\ pc' = "text"
    /\ UNCHANGED <<chunk_size, chunk_overlap, html, filename, sections, schunks,
                   fchunks, metadata, result, fault, prev>>
    /\ UNCHANGED <<classVars, scraperVars, soupVars, flatVars, batchVars, callVars, requestVars>>

ExtractMetadata ==
    /\ pc = "text"
    /\ \E now \in Dates : metadata' = extract_metadata(filename, now)
    /\ pc' = "meta"
    /\ UNCHANGED <<chunk_size, chunk_overlap, html, filename, text, sections, schunks,
                   fchunks, result, fault, prev>>
    /\ UNCHANGED <<classVars, scraperVars, soupVars, flatVars, batchVars, callVars, requestVars>>

ChunkTextStructureAware ==
    /\ pc = "meta"
    /\ sections' = _identify_sections(text)
    /\ schunks' = chunk_text_structure_aware(text, metadata, chunk_size)
    /\ pc' = "structured"
    /\ UNCHANGED <<chunk_size, chunk_overlap, html, filename, text, fchunks, metadata,
                   result, fault, prev>>
    /\ UNCHANGED <<classVars, scraperVars, soupVars, flatVars, batchVars, callVars, requestVars>>

\* lines 356-393 called from outside process_file: chunk_text is a public
\* method and takes any str, here on a processor that was given no HTML;
\* the call ends in "called", apart from the states of the pipeline
ChunkTextCall ==
    /\ pc = "new"
    /\ html = <<>>
    /\ \E t \in CallerTexts, now \in Dates :
          /\ text' = t
          /\ metadata' = extract_metadata(filename, now)
          /\ fchunks' = chunk_text(t, extract_metadata(filename, now), chunk_size,
                                   chunk_overlap)
    /\ pc' = "called"
    /\ UNCHANGED <<chunk_size, chunk_overlap, html, filename, sections, schunks,
                   result, fault, prev>>
    /\ UNCHANGED <<classVars, scraperVars, soupVars, flatVars, batchVars, callVars, requestVars>>

\* lines 328-336 called from outside the splitter, with a text that is not
\* trimmed; the call ends in "created", apart from the states of the pipeline
CreateChunkCall ==
    /\ pc = "new"
    /\ html = <<>>
    /\ \E t \in CallerTexts, now \in Dates :
          /\ text' = t
          /\ metadata' = extract_metadata(filename, now)
          /\ schunks' = <<_create_chunk(t, extract_metadata(filename, now))>>
    /\ pc' = "created"
    /\ UNCHANGED <<chunk_size, chunk_overlap, html, filename, sections, fchunks,
                   result, fault, prev>>
    /\ UNCHANGED <<classVars, scraperVars, soupVars, flatVars, batchVars, callVars, requestVars>>

ChunkText ==
    /\ pc = "structured"
    /\ fchunks' = chunk_text(text, metadata, chunk_size, chunk_overlap)
    /\ pc' = "flat"
    /\ UNCHANGED <<chunk_size, chunk_overlap, html, filename, text, sections, schunks,
                   metadata, result, fault, prev>>
    /\ UNCHANGED <<classVars, scraperVars, soupVars, flatVars, batchVars, callVars, requestVars>>

ProcessFile ==
    /\ pc \in {"new", "file"}
    /\ \E now \in Dates, flt \in Faults \cup {"none"} :
          /\ result' = process_file(html, filename, now, flt, chunk_size, chunk_overlap)
          /\ fault' = flt
          /\ metadata' = IF flt = "none" THEN extract_metadata(filename, now) ELSE <<>>
    /\ prev' = [called |-> pc = "file", chunks |-> result,
                date |-> IF pc = "file" /\ fault = "none" THEN metadata.processed_date ELSE ""]
    /\ pc' = IF pc = "new" THEN "file" ELSE "again"
    /\ UNCHANGED <<chunk_size, chunk_overlap, html, filename, text, sections, schunks,
                   fchunks>>
    /\ UNCHANGED <<classVars, scraperVars, soupVars, flatVars, batchVars, callVars, requestVars>>

Next ==
    \/ ExtractTextFromHtml
    \/ ExtractMetadata
    \/ ChunkTextStructureAware
    \/ ChunkText
    \/ ChunkTextCall
    \/ CreateChunkCall

\* the calls made on the processor's methods one by one
Spec == Init /\ [][Next]_vars

NextFile == ProcessFile

\* process_file called on the same file twice
SpecFile == InitFile /\ [][NextFile]_vars

-----------------------------------------------------------------------------
(* The flat chunk_text (lines 356-393) run one loop iteration at a time, on *)
(* a processor of any chunk_size and chunk_overlap (lines 83-85 take both  *)
(* as they are given)                                                       *)

InitFlat ==
    /\ ClassifierIdle /\ ScraperIdle /\ SoupIdle /\ BatchIdle /\ CallsIdle /\ RequestIdle
    /\ chunk_size \in 1..MaxChunkSize
    /\ chunk_overlap \in 0..MaxFlatOverlap
    /\ text \in FlatTexts
    /\ filename \in Filenames
    /\ \E now \in Dates : metadata = extract_metadata(filename, now)
    /\ html = <<>>
    /\ sections = <<>>
    /\ schunks = <<>>
    /\ fchunks = <<>>
    /\ result = <<>>
    /\ fault = "none"
    /\ prev = [called |-> FALSE, chunks |-> <<>>, date |-> ""]
    /\ pc = "loop"
    /\ start = 0
    /\ chunk_id = 0

\* lines 365-391: one pass through the body of the while loop
FlatIteration ==
    /\ pc = "loop"
    /\ start < Len(encode(text))
    /\ chunk_id < MaxIterations
    /\ fchunks' = Append(fchunks, FlatWindow(encode(text), metadata, chunk_size, start, chunk_id))
    /\ start' = start + chunk_size - chunk_overlap
    /\ chunk_id' = chunk_id + 1
    /\ UNCHANGED <<chunk_size, chunk_overlap, html, filename, pc, text, sections, schunks,
                   metadata, result, fault, prev>>
    /\ UNCHANGED <<classVars, scraperVars, soupVars, batchVars, callVars, requestVars>>

\* lines 365 and 393: the loop condition fails and the chunks are returned
FlatReturn ==
    /\ pc = "loop"
    /\ ~(start < Len(encode(text)))
    /\ pc' = "windows"
    /\ UNCHANGED <<chunk_size, chunk_overlap, html, filename, text, sections, schunks,
                   fchunks, metadata, result, fault, prev>>
    /\ UNCHANGED <<classVars, scraperVars, soupVars, flatVars, batchVars, callVars, requestVars>>

NextFlat == FlatIteration \/ FlatReturn

SpecFlat == InitFlat /\ [][NextFlat]_vars

-----------------------------------------------------------------------------
(* AzureRAGPipeline.process_directory (lines 608-659) on a directory of    *)
(* HTML files, one blocking call at a time.  The pipeline's processor is   *)
(* DocumentProcessor() (line 593): the default chunk_size and chunk_overlap *)
(* stand as MaxChunkSize and MaxOverlap.                                    *)

\* lines 558-569: the embedding of a text, a vector of zeros when the
\* service call raises
get_embedding(t, raises) == IF raises THEN "zeros" ELSE "embedding"

\* lines 487-496: the number of results that succeeded, 0 when the upload
\* raises; results tells whether it raises and gives r.succeeded per document
upload_documents(docs, results) ==
    IF results.raises THEN 0
    ELSE Cardinality({i \in 1..Len(docs) : results.succeeded[i]})

\* the results the search service can give for n documents
UploadResults(n) ==
    { [raises |-> TRUE, succeeded |-> <<>>],
      [raises |-> FALSE, succeeded |-> [i \in 1..n |-> TRUE]],
      [raises |-> FALSE, succeeded |-> [i \in 1..n |-> i # 1]] }

\* the suffix of a file name
Suffix(name) ==
    CASE name[Len(name)] \in {"0001.htm", "10K.htm", "report.htm"} -> ".htm"
      [] name[Len(name)] = "report.html" -> ".html"
      [] name[Len(name)] = "notes.txt" -> ".txt"

\* directory.glob("*" + suffix): the entries whose name ends in the suffix
Glob(entries, suffix) == SelectSeq(entries, LAMBDA f : Suffix(f.name) = suffix)

\* lines 635-646: the search document of a chunk; raises tells whether the
\* embedding call of this chunk raised
DocumentOf(chunk, raises) ==
    [id |-> chunk.id,
     content |-> chunk.text,
     vector |-> get_embedding(chunk.text, raises),
     company |-> Get(chunk.metadata, "company", "None"),
     year |-> Get(chunk.metadata, "year", "None"),
     filing_type |-> Get(chunk.metadata, "filing_type", "None"),
     chunk_id |-> Get(chunk.metadata, "chunk_id", "None"),
     token_count |-> Get(chunk.metadata, "token_count", "None"),
     processed_date |-> Get(chunk.metadata, "processed_date", "None")]

\* SkipFile leaving the loop when process_file gave no chunks
SkipFile_aborting(st) ==
    [st EXCEPT !.file_pos = Len(html_files),
               !.attempted = Append(st.attempted,
                                 [file |-> st.file_pos + 1, chunks |-> 0,
                                  documents |-> -1, uploaded |-> -1])]

\* lines 624-630: process_file gave no chunks and the loop goes on to the
\* next file; documents and uploaded are -1 in the record of a file for
\* which upload_documents was not called
SkipFile(st) ==
    [st EXCEPT !.file_pos = st.file_pos + 1,
               !.attempted = Append(st.attempted,
                                 [file |-> st.file_pos + 1, chunks |-> 0,
                                  documents |-> -1, uploaded |-> -1])]

InitBatch ==
    /\ ClassifierIdle /\ ScraperIdle /\ SoupIdle /\ FlatIdle /\ CallsIdle /\ RequestIdle
    /\ chunk_size = MaxChunkSize
    /\ chunk_overlap = MaxOverlap
    /\ html = <<>>
    /\ filename = <<"report.htm">>
    /\ pc = "new"
    /\ text = <<>>
    /\ sections = <<>>
    /\ schunks = <<>>
    /\ fchunks = <<>>
    /\ metadata = <<>>
    /\ result = <<>>
    /\ fault = "none"
    /\ prev = [called |-> FALSE, chunks |-> <<>>, date |-> ""]
    /\ directory \in Directories
    /\ html_files = <<>>
    /\ file_chunks = <<>>
    /\ documents = <<>>
    /\ file_pos = 0
    /\ total_chunks = 0
    /\ processed_files = 0
    /\ uploaded_documents = 0
    /\ attempted = <<>>
    /\ summary = <<>>
    /\ batch_pc = "idle"

\* lines 610-617: a directory that does not exist is an error; the *.htm
\* files are listed, then the *.html files; without any the call returns an
\* error
ListDirectory ==
    /\ batch_pc = "idle"
    /\ IF ~directory.exists
       THEN /\ batch_pc' = "returned"
            /\ summary' = [error |-> <<"Directory ", directory.path, " does not exist">>]
            /\ html_files' = html_files
       ELSE LET files == Glob(directory.entries, ".htm") \o Glob(directory.entries, ".html")
            IN  /\ html_files' = files
                /\ IF files = <<>>
                   THEN /\ batch_pc' = "returned"
                        /\ summary' = [error |-> <<"No HTML files found in ", directory.path>>]
                   ELSE batch_pc' = "loop" /\ summary' = summary
    /\ UNCHANGED <<directory, file_chunks, documents, file_pos, total_chunks, processed_files,
                   uploaded_documents, attempted>>
    /\ UNCHANGED <<procVars, classVars, scraperVars, soupVars, flatVars, callVars, requestVars>>

\* lines 624-632: the next file is handed to process_file; with chunks the
\* list of documents is started, without the loop goes on
ProcessNextFile ==
    /\ batch_pc = "loop"
    /\ file_pos < Len(html_files)
    /\ \E now \in Dates :
         LET file == html_files[file_pos + 1]
             cks == process_file(file.doc, file.name, now, file.flt, chunk_size, chunk_overlap)
         IN  /\ file_chunks' = cks
             /\ IF cks # <<>>
                THEN /\ documents' = <<>>
                     /\ batch_pc' = "embed"
                     /\ UNCHANGED <<file_pos, attempted>>
                ELSE LET st == SkipFile([file_pos |-> file_pos, attempted |-> attempted])
                     IN  /\ file_pos' = st.file_pos
                         /\ attempted' = st.attempted
                         /\ UNCHANGED <<documents, batch_pc>>
    /\ UNCHANGED <<directory, html_files, total_chunks, processed_files, uploaded_documents,
                   summary>>
    /\ UNCHANGED <<procVars, classVars, scraperVars, soupVars, flatVars, callVars, requestVars>>

\* lines 634-647: one iteration of the loop over the chunks: the embedding
\* service is called for the chunk and its document is appended
EmbedChunk ==
    /\ batch_pc = "embed"
    /\ Len(documents) < Len(file_chunks)
    /\ \E raises \in BOOLEAN :
         documents' = Append(documents, DocumentOf(file_chunks[Len(documents) + 1], raises))
    /\ UNCHANGED <<directory, html_files, file_chunks, file_pos, total_chunks, processed_files,
                   uploaded_documents, attempted, summary, batch_pc>>
    /\ UNCHANGED <<procVars, classVars, scraperVars, soupVars, flatVars, callVars, requestVars>>

\* lines 649-652: the documents of the file are uploaded and the counters
\* are advanced
UploadDocuments ==
    /\ batch_pc = "embed"
    /\ Len(documents) = Len(file_chunks)
    /\ \E results \in UploadResults(Len(documents)) :
         LET uploaded == upload_documents(documents, results)
         IN  /\ uploaded_documents' = uploaded_documents + uploaded
             /\ total_chunks' = total_chunks + Len(file_chunks)
             /\ processed_files' = processed_files + 1
             /\ attempted' = Append(attempted,
                                 [file |-> file_pos + 1, chunks |-> Len(file_chunks),
                                  documents |-> Len(documents), uploaded |-> uploaded])
    /\ file_pos' = file_pos + 1
    /\ batch_pc' = "loop"
    /\ UNCHANGED <<directory, html_files, file_chunks, documents, summary>>
    /\ UNCHANGED <<procVars, classVars, scraperVars, soupVars, flatVars, callVars, requestVars>>

\* lines 654-659
ReturnSummary ==
    /\ batch_pc = "loop"
    /\ file_pos >= Len(html_files)
    /\ summary' = [total_files |-> Len(html_files),
                   processed_files |-> processed_files,
                   total_chunks |-> total_chunks,
                   search_documents |-> uploaded_documents]
    /\ batch_pc' = "returned"
    /\ UNCHANGED <<directory, html_files, file_chunks, documents, file_pos, total_chunks,
                   processed_files, uploaded_documents, attempted>>
    /\ UNCHANGED <<procVars, classVars, scraperVars, soupVars, flatVars, callVars, requestVars>>

NextBatch == ListDirectory \/ ProcessNextFile \/ EmbedChunk \/ UploadDocuments \/ ReturnSummary

SpecBatch == InitBatch /\ [][NextBatch]_vars

-----------------------------------------------------------------------------
(* Two process_file calls (lines 395-413) on one DocumentProcessor, on     *)
(* different documents, their steps interleaved: a step is one iteration   *)
(* of the loop of extract_text_from_html, or the rest of the call.          *)

\* lines 96-97: text_parts and processed_elements are locals of the call
NewCall(tree, name, now) ==
    [soup |-> tree, name |-> name, now |-> now, visited |-> 0,
     text_parts |-> <<>>, processed_elements |-> {}, emitters |-> {},
     pc |-> "walk", result |-> <<>>]

\* processed_elements being one set of the processor, shared by its calls
ProcessedSeenBy_shared(cs, c) ==
    UNION {cs[d].processed_elements : d \in DOMAIN cs}

\* line 97: the processed_elements that call c reads and writes
ProcessedSeenBy(cs, c) == cs[c].processed_elements

\* lines 99-138 in call c: the next iteration of the loop over all_elements
CallIteration(cs, c) ==
    LET st == VisitElement(cs[c].soup, all_elements(cs[c].soup)[cs[c].visited + 1],
                           [text_parts |-> cs[c].text_parts,
                            processed_elements |-> ProcessedSeenBy(cs, c),
                            emitters |-> cs[c].emitters])
    IN  [cs EXCEPT ![c].text_parts = st.text_parts,
                   ![c].processed_elements = st.processed_elements,
                   ![c].emitters = st.emitters,
                   ![c].visited = @ + 1]

\* lines 139 and 402-409 in call c: the text is joined, the metadata
\* extracted, the text chunked and the chunks returned
CallRest(cs, c) ==
    [cs EXCEPT ![c].pc = "returned",
               ![c].result = chunk_text(Join(cs[c].text_parts, <<NL, NL>>),
                                        extract_metadata(cs[c].name, cs[c].now),
                                        chunk_size, chunk_overlap)]

InitCalls ==
    /\ ClassifierIdle /\ ScraperIdle /\ SoupIdle /\ FlatIdle /\ BatchIdle /\ RequestIdle
    /\ Constructed
    /\ filename = <<"report.htm">>
    /\ html = <<>>
    /\ \E a, b \in CallSoups, now \in Dates :
          /\ a # b
          /\ calls = <<NewCall(a, <<"GOOGL", USCORE, "10K", USCORE, "2023", USCORE, "0001.htm">>, now),
                       NewCall(b, <<"MSFT", USCORE, "10K.htm">>, now)>>
    /\ call_order = <<>>

CallLoopIteration(c) ==
    /\ calls[c].pc = "walk"
    /\ calls[c].visited < Len(all_elements(calls[c].soup))
    /\ calls' = CallIteration(calls, c)
    /\ call_order' = Append(call_order, c)
    /\ UNCHANGED <<procVars, classVars, scraperVars, soupVars, flatVars, batchVars, requestVars>>

CallReturn(c) ==
    /\ calls[c].pc = "walk"
    /\ calls[c].visited = Len(all_elements(calls[c].soup))
    /\ calls' = CallRest(calls, c)
    /\ call_order' = Append(call_order, c)
    /\ UNCHANGED <<procVars, classVars, scraperVars, soupVars, flatVars, batchVars, requestVars>>

NextCalls == \E c \in CallIds : CallLoopIteration(c) \/ CallReturn(c)

SpecCalls == InitCalls /\ [][NextCalls]_vars

-----------------------------------------------------------------------------
(* SECEdgarScraper._make_request (sec_edgar_scraper.py, lines 144-171),    *)
(* one blocking call at a time: the rate-limit sleep, the GET, the backoff *)

\* line 158: time.sleep(0.1) ahead of the request
RateLimitSleep(req) ==
    [req EXCEPT !.events = Append(@, [kind |-> "sleep", seconds |-> "0.1",
                                      attempt |-> req.attempt]),
                !.req_pc = "get"]

\* lines 160-163: requests.get and raise_for_status coming to outcome: the
\* response is returned, a RequestException goes to the handler, any other
\* exception leaves the function
RequestsGet(req, outcome) ==
    LET got == Append(req.events,
                      [kind |-> "get", outcome |-> outcome, attempt |-> req.attempt])
    IN  IF outcome = "ok"
        THEN [req EXCEPT !.events = got,
                         !.response = "Response " \o req.url,
                         !.req_pc = "returned"]
        ELSE IF outcome \in RequestExceptions
        THEN [req EXCEPT !.events = got, !.req_pc = "except"]
        ELSE [req EXCEPT !.events = got, !.req_pc = "raised"]

\* OnRequestException sleeping the backoff after the last attempt as well
OnRequestException_always_backoff(req) ==
    LET waited == Append(req.events,
                         [kind |-> "backoff", seconds |-> 2 ^ req.attempt,
                          attempt |-> req.attempt])
    IN  IF req.attempt < req.retries - 1
        THEN [req EXCEPT !.events = waited, !.attempt = @ + 1, !.req_pc = "loop"]
        ELSE [req EXCEPT !.events = waited, !.response = "None", !.req_pc = "returned"]

\* lines 165-171: the handler of RequestException: the backoff sleep and the
\* next iteration, or None after the last attempt
OnRequestException(req) ==
    IF req.attempt < req.retries - 1
    THEN [req EXCEPT !.events = Append(@, [kind |-> "backoff", seconds |-> 2 ^ req.attempt,
                                           attempt |-> req.attempt]),
                     !.attempt = @ + 1,
                     !.req_pc = "loop"]
    ELSE [req EXCEPT !.response = "None",
                     !.req_pc = "returned"]

\* the locals of the running call
RequestState ==
    [url |-> url, retries |-> retries, attempt |-> attempt, events |-> events,
     response |-> response, req_pc |-> req_pc]

InitRequest ==
    /\ ProcessorIdle /\ ClassifierIdle /\ ScraperIdle /\ SoupIdle /\ FlatIdle /\ BatchIdle /\ CallsIdle
    /\ url \in Urls
    /\ retries \in 0..MaxRetries
    /\ attempt = 0
    /\ events = <<>>
    /\ response = "None"
    /\ req_pc = "loop"

\* lines 155-158: the loop has an attempt left and sleeps ahead of it
MakeRequestSleep ==
    /\ req_pc = "loop"
    /\ attempt < retries
    /\ events' = RateLimitSleep(RequestState).events
    /\ req_pc' = RateLimitSleep(RequestState).req_pc
    /\ UNCHANGED <<url, retries, attempt, response>>
    /\ UNCHANGED <<procVars, classVars, scraperVars, soupVars, flatVars, batchVars, callVars>>

\* lines 160-163
MakeRequestGet ==
    /\ req_pc = "get"
    /\ \E outcome \in Outcomes :
          LET req == RequestsGet(RequestState, outcome)
          IN  /\ events' = req.events
              /\ response' = req.response
              /\ req_pc' = req.req_pc
    /\ UNCHANGED <<url, retries, attempt>>
    /\ UNCHANGED <<procVars, classVars, scraperVars, soupVars, flatVars, batchVars, callVars>>

\* lines 165-171
MakeRequestExcept ==
    /\ req_pc = "except"
    /\ LET req == OnRequestException(RequestState)
       IN  /\ attempt' = req.attempt
           /\ events' = req.events
           /\ response' = req.response
           /\ req_pc' = req.req_pc
    /\ UNCHANGED <<url, retries>>
    /\ UNCHANGED <<procVars, classVars, scraperVars, soupVars, flatVars, batchVars, callVars>>

\* line 155 with nothing left in range(retries): the function ends without
\* a return statement, which gives None
MakeRequestLoopEnd ==
    /\ req_pc = "loop"
    /\ ~(attempt < retries)
    /\ response' = "None"
    /\ req_pc' = "returned"
    /\ UNCHANGED <<url, retries, attempt, events>>
    /\ UNCHANGED <<procVars, classVars, scraperVars, soupVars, flatVars, batchVars, callVars>>

NextRequest == MakeRequestSleep \/ MakeRequestGet \/ MakeRequestExcept \/ MakeRequestLoopEnd

SpecRequest == InitRequest /\ [][NextRequest]_vars

-----------------------------------------------------------------------------
(* The section classifier called on its own *)

InitClassify ==
    /\ ProcessorIdle /\ ScraperIdle /\ SoupIdle /\ FlatIdle /\ BatchIdle /\ CallsIdle /\ RequestIdle
    /\ title_in \in Titles
    /\ categories = <<>>

\* one call of _classify_section_type(title_in); the title is classified twice
ClassifySectionType ==
    /\ Len(categories) < 2
    /\ categories' = Append(categories, _classify_section_type(title_in))
    /\ UNCHANGED <<title_in, procVars, scraperVars, soupVars, flatVars, batchVars, callVars, requestVars>>

NextClassify == ClassifySectionType

SpecClassify == InitClassify /\ [][NextClassify]_vars

-----------------------------------------------------------------------------
(* The scraper registry *)

InitScraper == ProcessorIdle /\ ClassifierIdle /\ SoupIdle /\ ScraperIdle /\ FlatIdle /\ BatchIdle /\ CallsIdle /\ RequestIdle

\* SECEdgarScraper(): line 73, self.companies = self.COMPANIES.copy()
NewScraper ==
    /\ Len(companies) < MaxScrapers
    /\ companies' = Append(companies, COMPANIES)
    /\ UNCHANGED <<COMPANIES, procVars, classVars, soupVars, flatVars, batchVars, callVars, requestVars>>

AddCompany(self, symbol, name, cik) ==
    /\ self \in 1..Len(companies)
    /\ companies' = add_company(self, symbol, name, cik).companies
    /\ COMPANIES' = add_company(self, symbol, name, cik).COMPANIES
    /\ UNCHANGED <<procVars, classVars, soupVars, flatVars, batchVars, callVars, requestVars>>

\* flask_app.py lines 225-239, with the scraper module imported: the view
\* strips the three fields of the body, a missing one being '', answers 400
\* without a write when one of them is empty, and else writes
\* SECEdgarScraper.COMPANIES[symbol.upper()] itself, without add_company, so
\* no scraper's own registry changes
api_admin_add_company(data) ==
    LET symbol == Upper(StripField(Get(data, "symbol", "")))
        name == StripField(Get(data, "name", ""))
        cik == StripField(Get(data, "cik", ""))
    IN  /\ COMPANIES' = IF symbol = "" \/ name = "" \/ cik = ""
                        THEN COMPANIES
                        ELSE SetItem(COMPANIES, symbol, [name |-> name, cik |-> cik])
        /\ UNCHANGED <<companies, procVars, classVars, soupVars, flatVars, batchVars, callVars, requestVars>>

\* demo_admin_server.py lines 421-436: the handler writes
\* SECEdgarScraper.COMPANIES[data['symbol'].upper()] with the fields as they
\* came, neither stripped nor checked; a missing field raises KeyError ahead
\* of the write and the bare except swallows it
handle_add_company(data) ==
    /\ COMPANIES' = IF {"symbol", "name", "cik"} \subseteq DOMAIN data
                    THEN SetItem(COMPANIES, Upper(data.symbol),
                                 [name |-> data.name, cik |-> data.cik])
                    ELSE COMPANIES
    /\ UNCHANGED <<companies, procVars, classVars, soupVars, flatVars, batchVars, callVars, requestVars>>

NextScraper ==
    \/ NewScraper
    \/ \E self \in 1..MaxScrapers, e \in AddCalls :
          AddCompany(self, e.symbol, e.name, e.cik)
    \/ \E data \in AdminBodies : api_admin_add_company(data)
    \/ \E data \in AdminBodies : handle_add_company(data)

SpecScraper == InitScraper /\ [][NextScraper]_vars

-----------------------------------------------------------------------------
(* extract_text_from_html walking a tree, one element per step *)

InitSoup ==
    /\ ProcessorIdle /\ ClassifierIdle /\ ScraperIdle /\ FlatIdle /\ BatchIdle /\ CallsIdle /\ RequestIdle
    /\ soup \in Soups
    /\ visited = 0
    /\ text_parts = <<>>
    /\ processed_elements = {}
    /\ emitters = {}

\* lines 99-138: the next iteration of the loop over all_elements
LoopIteration ==
    /\ pc = "new"
    /\ visited < Len(all_elements(soup))
    /\ LET st == VisitElement(soup, all_elements(soup)[visited + 1],
                              [text_parts |-> text_parts,
                               processed_elements |-> processed_elements,
                               emitters |-> emitters])
       IN  /\ text_parts' = st.text_parts
           /\ processed_elements' = st.processed_elements
           /\ emitters' = st.emitters
    /\ visited' = visited + 1
    /\ UNCHANGED <<soup, procVars, classVars, scraperVars, flatVars, batchVars, callVars, requestVars>>

\* line 139: return '\n\n'.join(text_parts)
ReturnText ==
    /\ pc = "new"
    /\ visited = Len(all_elements(soup))
    /\ text' = Join(text_parts, <<NL, NL>>)
    /\ pc' = "text"
    /\ UNCHANGED <<chunk_size, chunk_overlap, html, filename, sections, schunks,
                   fchunks, metadata, result, fault, prev>>
    /\ UNCHANGED <<classVars, scraperVars, soupVars, flatVars, batchVars, callVars, requestVars>>

NextSoup == LoopIteration \/ ReturnText

SpecSoup == InitSoup /\ [][NextSoup]_vars

-----------------------------------------------------------------------------
(* Properties *)

\* the structure-aware chunk_text has run on text
DoneStructured == pc \in {"structured", "flat"}

\* how often symbol s occurs in t
Occurrences(s, t) == Cardinality({i \in 1..Len(t) : t[i] = s})

RECURSIVE Texts(_)
\* the texts of a chunk list, one after the other
Texts(chunks) == IF chunks = <<>> THEN <<>> ELSE Head(chunks).text \o Texts(Tail(chunks))

WithType(chunks, ctype) == SelectSeq(chunks, LAMBDA c : c.content_type = ctype)

NonSpace(t) == SelectSeq(t, LAMBDA s : ~IsSpace(s))

\* a chunk that is one table row, or one sentence of one paragraph
SingleUnit(c) ==
    IF c.content_type = "financial_table"
    THEN Find(c.text, <<NL>>) = 0
    ELSE Find(c.text, <<NL, NL>>) = 0 /\ Len(SplitSentences(c.text)) = 1

\* C1: every chunk of the structure-aware splitter has token_count <=
\* chunk_size, unless its text is one table row or one sentence.
C1_BoundRespected ==
    DoneStructured =>
        \A i \in 1..Len(schunks) :
            schunks[i].token_count <= chunk_size \/ SingleUnit(schunks[i])

\* the lines of the marked stream that carry a paragraph, a list item or a
\* table row: not a header line, a rule line or a table marker line
IsContentLine(line) ==
    /\ line # <<>>
    /\ ~StartsWith(line, <<SECTION_>>)
    /\ ~(\A i \in 1..Len(line) : line[i] \in {EQ, EQ10})
    /\ line \notin {<<TABLE_OPEN>>, <<TABLE_CLOSE>>}

RECURSIVE ContentOf(_)
ContentOf(lines) ==
    IF lines = <<>> THEN <<>>
    ELSE (IF IsContentLine(Strip(Head(lines))) THEN Strip(Head(lines)) ELSE <<>>)
             \o ContentOf(Tail(lines))

\* C2: no loss: every symbol of every paragraph, list item and table row of
\* the marked stream occurs as often in the texts of the emitted chunks.
C2_NoLoss ==
    DoneStructured =>
        LET content == ContentOf(Split(text, <<NL>>))
            emitted == Texts(schunks)
        IN  \A i \in 1..Len(content) :
                IsSpace(content[i])
                    \/ Occurrences(content[i], content) <= Occurrences(content[i], emitted)

\* position i of a section body lies between a [FINANCIAL_TABLE] marker and
\* the [/FINANCIAL_TABLE] marker that closes it
InTable(content, i) ==
    /\ content[i] \notin {TABLE_OPEN, TABLE_CLOSE}
    /\ \E o \in 1..(i - 1) :
          /\ content[o] = TABLE_OPEN
          /\ \A k \in o..i : content[k] # TABLE_CLOSE
    /\ \E c \in (i + 1)..Len(content) : content[c] = TABLE_CLOSE

Marker(s) == s \in {TABLE_OPEN, TABLE_CLOSE}

RECURSIVE PickTable(_, _, _)
\* the non-space symbols of content at the positions from i on that are inside
\* (inside = TRUE) or outside the table spans, markers left out
PickTable(content, i, inside) ==
    IF i > Len(content) THEN <<>>
    ELSE (IF ~IsSpace(content[i]) /\ ~Marker(content[i]) /\ InTable(content, i) = inside
          THEN <<content[i]>> ELSE <<>>) \o PickTable(content, i + 1, inside)

IsolatedIn(section) ==
    LET chunks == _chunk_section(section, metadata, chunk_size)
        tables == WithType(chunks, "financial_table")
        prose == WithType(chunks, "text")
    IN  /\ Len(tables) + Len(prose) = Len(chunks)
        /\ NonSpace(Texts(tables)) = PickTable(section.content, 1, TRUE)
        /\ NonSpace(Texts(prose)) = PickTable(section.content, 1, FALSE)

\* C3: table isolation: no text chunk holds a table marker; per section the
\* table chunks hold exactly the content inside the table spans and the text
\* chunks exactly the content outside them, so nothing is chunked twice.
C3_TableIsolation ==
    DoneStructured =>
        /\ \A i \in 1..Len(schunks) :
              schunks[i].content_type = "text" =>
                  \A k \in 1..Len(schunks[i].text) : ~Marker(schunks[i].text[k])
        /\ \A k \in 1..Len(sections) : IsolatedIn(sections[k])

\* a section with a table and prose around it was split into both kinds of chunk
C3_Witness ==
    /\ DoneStructured
    /\ \E k \in 1..Len(sections) :
          /\ PickTable(sections[k].content, 1, TRUE) # <<>>
          /\ PickTable(sections[k].content, 1, FALSE) # <<>>
    /\ \E i, j \in 1..Len(schunks) :
          /\ schunks[i].content_type = "financial_table"
          /\ schunks[j].content_type = "text"
          /\ schunks[i].section_title = schunks[j].section_title

\* C4: the i-th chunk of a document (from 0, across sections and strategies)
\* has the id company_year_i, so the ids of a document are pairwise distinct.
C4_RunningIds ==
    DoneStructured =>
        /\ \A i \in 1..Len(schunks) : schunks[i].id = ChunkId(metadata, i - 1)
        /\ \A i, j \in 1..Len(schunks) : i # j => schunks[i].id # schunks[j].id

\* C5: a marked stream without header markers gives the one section
\* "Document Content" (level 1, general) holding the whole text, and every
\* chunk carries that title and type.
C5_FallbackSection ==
    (DoneStructured /\ \A i \in 1..Len(text) : text[i] # SECTION_) =>
        /\ sections = <<[title |-> <<"Document", SP, "Content">>, content |-> text,
                         level |-> 1, type |-> "general"]>>
        /\ \A i \in 1..Len(schunks) :
              /\ schunks[i].section_title = <<"Document", SP, "Content">>
              /\ schunks[i].section_type = "general"

\* C6: process_file returns the per-section chunks of the structure-aware
\* splitter, tagged with section_title, section_level, section_type and
\* content_type.
C6_StructureAwareDefault ==
    (pc # "new" /\ fault = "none") =>
        /\ result = chunk_text_structure_aware(extract_text_from_html(html), metadata, chunk_size)
        /\ \A i \in 1..Len(result) :
              {"section_title", "section_level", "section_type", "content_type"}
                  \subseteq DOMAIN result[i]

\* both process_file calls on the file returned normally
BothRuns == pc = "again" /\ fault = "none" /\ prev.date # ""

\* C7: two process_file runs on the same file give the same number of chunks
\* with the same ids in the same order, whatever their processed_date.
C7_DeterministicIds ==
    BothRuns =>
        /\ Len(result) = Len(prev.chunks)
        /\ \A i \in 1..Len(result) : result[i].id = prev.chunks[i].id

\* two runs at different times, each giving several chunks
C7_Witness ==
    /\ BothRuns
    /\ prev.date # metadata.processed_date
    /\ Len(result) >= 2
    /\ result[1].metadata.processed_date # prev.chunks[1].metadata.processed_date

FileKeys == {"company", "filing_type", "year"}

\* C8: with at least 3 underscore-separated parts company, filing_type and
\* year are parts 0, 1 and 2; with fewer the three keys are absent from the
\* metadata and from every chunk; filename and processed_date are always there.
C8_Metadata ==
    pc \in {"meta", "structured", "flat"} =>
        LET parts == Split(filename, <<USCORE>>)
        IN  /\ {"filename", "processed_date"} \subseteq DOMAIN metadata
            /\ metadata.filename = filename
            /\ metadata.processed_date \in Dates
            /\ Len(parts) >= 3 =>
                  /\ metadata.company = parts[1]
                  /\ metadata.filing_type = parts[2]
                  /\ metadata.year = parts[3]
            /\ Len(parts) < 3 =>
                  /\ FileKeys \cap DOMAIN metadata = {}
                  /\ \A i \in 1..Len(schunks) : FileKeys \cap DOMAIN schunks[i] = {}
                  /\ \A i \in 1..Len(fchunks) : FileKeys \cap DOMAIN fchunks[i].metadata = {}

\* "report.htm" was chunked by both splitters and the chunks carry no file keys
C8_Witness ==
    /\ pc = "flat"
    /\ filename = <<"report.htm">>
    /\ schunks # <<>>
    /\ fchunks # <<>>
    /\ "company" \notin DOMAIN fchunks[1].metadata
    /\ "filename" \in DOMAIN schunks[1]

\* C9: blank HTML, or HTML whose extracted content is blank, gives an empty
\* chunk sequence with either splitter, and no chunk with an empty text.
C9_EmptyInput ==
    (pc = "flat" /\ Strip(text) = <<>>) => (schunks = <<>> /\ fchunks = <<>>)

\* a document whose elements are all too short to be extracted went through
\* both splitters
C9_Witness ==
    /\ pc = "flat"
    /\ html # <<>>
    /\ Strip(text) = <<>>
    /\ schunks = <<>> /\ fchunks = <<>>

\* C10: process_file returns the complete chunk list of the document, or no
\* chunk at all when a step raised; never a part of the list.
C10_Atomic ==
    pc # "new" =>
        IF fault = "none"
        THEN result = chunk_text(extract_text_from_html(html), metadata,
                                 chunk_size, chunk_overlap)
        ELSE result = <<>>

\* decode raised after windows of a several-window document were built
C10_Witness ==
    /\ pc # "new"
    /\ fault = "decode"
    /\ result = <<>>
    /\ Len(encode(extract_text_from_html(html))) > chunk_size

\* the keyword groups of the classifier in their order of precedence
KeywordGroups ==
    << [category |-> "financial",
        keywords |-> {"financial", "statement", "income", "balance", "cash flow"}],
       [category |-> "risk", keywords |-> {"risk", "factor"}],
       [category |-> "business", keywords |-> {"business", "overview", "operation"}],
       [category |-> "legal", keywords |-> {"legal", "proceeding", "litigation"}],
       [category |-> "mda",
        keywords |-> {"management", "discussion", "analysis", "md&a"}] >>

\* the groups that have a keyword inside the lower-cased title
Matching(t) ==
    {g \in 1..Len(KeywordGroups) : \E k \in KeywordGroups[g].keywords : HasKeyword(t, k)}

\* C11: the classifier returns the category of the first keyword group, in the
\* order financial, risk, business, legal, mda, that has a keyword in the
\* title, general when none has, and the same category on every call.
C11_Precedence ==
    \A i \in 1..Len(categories) :
        /\ categories[i] \in {"financial", "risk", "business", "legal", "mda", "general"}
        /\ categories[i] = categories[1]
        /\ IF Matching(title_in) = {} THEN categories[i] = "general"
           ELSE \E g \in Matching(title_in) :
                   /\ \A h \in Matching(title_in) : g <= h
                   /\ categories[i] = KeywordGroups[g].category

\* a title with a business keyword and an mda keyword was classified twice
C11_Witness ==
    /\ Len(categories) = 2
    /\ HasKeyword(title_in, "operation")
    /\ HasKeyword(title_in, "management")
    /\ categories[2] = "business"

\* what add_company(symbol, name, cik) on scraper self has to leave behind
AddCompanyEffect(self, symbol, name, cik) ==
    LET key == Upper(symbol)
        entry == [name |-> name, cik |-> cik]
        isnew == key \notin DOMAIN companies[self]
    IN  /\ key \in DOMAIN companies'[self] /\ companies'[self][key] = entry
        /\ key \in DOMAIN COMPANIES' /\ COMPANIES'[key] = entry
        /\ DOMAIN companies'[self] = DOMAIN companies[self] \cup {key}
        /\ DOMAIN COMPANIES' = DOMAIN COMPANIES \cup {key}
        /\ \A k \in DOMAIN companies[self] \ {key} : companies'[self][k] = companies[self][k]
        /\ \A k \in DOMAIN COMPANIES \ {key} : COMPANIES'[k] = COMPANIES[k]
        /\ Cardinality(DOMAIN get_available_companies(self)') =
               Cardinality(DOMAIN get_available_companies(self)) + (IF isnew THEN 1 ELSE 0)

\* C12: after add_company the upper-cased symbol maps to {name, cik} in the
\* scraper's registry and in COMPANIES, every other entry of both is as it
\* was, and get_available_companies() has one more entry when the symbol was
\* new to the scraper and as many as before when it was not.
C12_AddCompany ==
    [][\A self \in 1..MaxScrapers, e \in AddCalls :
          AddCompany(self, e.symbol, e.name, e.cik) =>
              AddCompanyEffect(self, e.symbol, e.name, e.cik)]_vars

\* a lower-case symbol was added to one scraper and an existing one replaced
C12_Witness ==
    /\ Len(companies) = 2
    /\ DOMAIN get_available_companies(1) = {"AAPL", "GOOGL", "MSFT", "NVDA"}
    /\ "AAPL" \in DOMAIN COMPANIES
    /\ companies[1]["AAPL"].name = "Apple Inc."
    /\ COMPANIES["AAPL"] = companies[1]["AAPL"]
    /\ "AAPL" \notin DOMAIN companies[2]
    /\ companies[1]["MSFT"].name = "Microsoft Corp."

\* the walk over the tree has returned
Walked == soup # <<>> /\ pc = "text"

\* C13: of nested tables only the outermost is emitted as a
\* [FINANCIAL_TABLE] block; a table inside a table emits no block of its own.
C13_OutermostTableOnly ==
    Walked =>
        \A i \in 1..Len(soup) :
            (soup[i].tag = "table" /\ find_parent(soup, i, "table") # 0) => i \notin emitters

\* C14: no element emits a block when an element around it has emitted its
\* subtree text as a block already.
C14_EmittedOnce ==
    Walked =>
        \A i \in emitters : \A k \in 1..Len(Parents(soup, i)) : Parents(soup, i)[k] \notin emitters

\* a line made of '=' characters only
IsRuleLine(line) == line # <<>> /\ \A i \in 1..Len(line) : line[i] \in {EQ, EQ10}

IsHeaderLine(line) == StartsWith(line, <<SECTION_>>)

\* a line that belongs to the body of the section it stands in
IsBodyLine(line) == line # <<>> /\ ~IsHeaderLine(line) /\ ~IsRuleLine(line)

\* the stripped lines of the marked stream
StreamLines(t) == [i \in 1..Len(Split(t, <<NL>>)) |-> Strip(Split(t, <<NL>>)[i])]

\* the header at position h (0: the start of the stream) has a body line
\* before the next header
HasBody(lines, h) ==
    \E i \in (h + 1)..Len(lines) :
        /\ IsBodyLine(lines[i])
        /\ \A j \in (h + 1)..i : ~IsHeaderLine(lines[j])

\* title and level a header line carries
HeaderTitle(line) == Strip(SubSeq(line, Find(line, <<COLON>>) + 1, Len(line)))
HeaderLevel(line) == IF Len(line) >= 2 /\ line[2] \in Digits THEN DigitValue(line[2]) ELSE 1

RECURSIVE ExpectedSections(_, _)
\* title and level of the sections the stream has from position h on
ExpectedSections(lines, h) ==
    IF h > Len(lines) THEN <<>>
    ELSE (IF h = 0 /\ HasBody(lines, 0) THEN <<[title |-> <<>>, level |-> 0]>>
          ELSE IF h > 0 /\ IsHeaderLine(lines[h]) /\ HasBody(lines, h)
          THEN <<[title |-> HeaderTitle(lines[h]), level |-> HeaderLevel(lines[h])]>>
          ELSE <<>>) \o ExpectedSections(lines, h + 1)

\* C15: the sections are, in stream order, one per SECTION_ header with a
\* non-blank body, with the header's title and level, after a leading section
\* with empty title and level 0 when content precedes the first header; a
\* header with a blank body gives no section and no other section has level 0.
C15_SectionsInOrder ==
    (DoneStructured /\ \E i \in 1..Len(StreamLines(text)) :
                          IsHeaderLine(StreamLines(text)[i]) \/ IsBodyLine(StreamLines(text)[i])) =>
        /\ [k \in 1..Len(sections) |-> [title |-> sections[k].title, level |-> sections[k].level]]
               = ExpectedSections(StreamLines(text), 0)
        /\ \A k \in 2..Len(sections) : sections[k].level # 0

\* C16: every non-blank line of the stream that is neither a SECTION_ header
\* nor made of '=' only is a line of some section's content.
C16_OnlyRuleLinesSkipped ==
    DoneStructured =>
        \A i \in 1..Len(StreamLines(text)) :
            IsBodyLine(StreamLines(text)[i]) =>
                \E k \in 1..Len(sections) :
                    \E j \in 1..Len(StreamLines(sections[k].content)) :
                        StreamLines(sections[k].content)[j] = StreamLines(text)[i]

\* the section body the prose strategy gets
ProseOf(section) ==
    IF Find(section.content, <<TABLE_OPEN>>) # 0 THEN RemoveTableSpans(section.content)
    ELSE section.content

RECURSIVE ProseUnits(_, _)
\* the units of the prose strategy: a paragraph that fits is one unit, a
\* paragraph over the bound gives its sentences
ProseUnits(paragraphs, size) ==
    IF paragraphs = <<>> THEN <<>>
    ELSE LET paragraph == Strip(Head(paragraphs))
         IN  (IF paragraph = <<>> THEN <<>>
              ELSE IF ntokens(paragraph) > size THEN SplitSentences(paragraph)
              ELSE <<paragraph>>) \o ProseUnits(Tail(paragraphs), size)

\* the units of the table strategy: a table that fits is one unit, a table
\* over the bound gives its rows
TableUnits(span, size) ==
    IF Strip(span) = <<>> THEN <<>>
    ELSE IF ntokens(Strip(span)) <= size THEN <<Strip(span)>>
    ELSE Split(Strip(span), <<NL>>)

\* the strategy runs of a section: one per table span, then the prose
RunsOf(section, size) ==
    LET spans == IF Find(section.content, <<TABLE_OPEN>>) # 0
                 THEN TableSpans(section.content) ELSE <<>>
    IN  [i \in 1..Len(spans) |->
            [type |-> "financial_table", units |-> TableUnits(spans[i], size),
             joiners |-> {<<NL>>}]]
        \o <<[type |-> "text",
              units |-> ProseUnits(Split(ProseOf(section), <<NL, NL>>), size),
              joiners |-> {<<SP>>, <<NL, NL>>}]>>

RECURSIVE DocRuns(_, _)
\* the strategy runs of a document, section after section
DocRuns(secs, size) ==
    IF secs = <<>> THEN <<>> ELSE RunsOf(Head(secs), size) \o DocRuns(Tail(secs), size)

\* how many units of the runs of one type are the unit u
UnitCount(runs, type, u) ==
    Cardinality(UNION {{<<r, k>> : k \in {n \in 1..Len(runs[r].units) : runs[r].units[n] = u}} :
                          r \in {n \in 1..Len(runs) : runs[n].type = type}})

\* C17: a table row or sentence over chunk_size is emitted whole and alone:
\* as many chunks have exactly that unit as their text as the unit occurs in
\* the runs of its strategy.
C17_OversizedAlone ==
    DoneStructured =>
        LET runs == DocRuns(sections, chunk_size)
        IN  \A r \in 1..Len(runs) : \A k \in 1..Len(runs[r].units) :
                LET u == runs[r].units[k]
                IN  ntokens(u) > chunk_size =>
                        Cardinality({i \in 1..Len(schunks) :
                                        /\ schunks[i].content_type = runs[r].type
                                        /\ schunks[i].text = Strip(u)})
                            = UnitCount(runs, runs[r].type, u)

\* a table row and a sentence, each over chunk_size, are chunks of their own
C17_Witness ==
    /\ DoneStructured
    /\ \E i, j \in 1..Len(schunks) :
          /\ schunks[i].content_type = "financial_table"
          /\ schunks[i].token_count > chunk_size
          /\ Find(schunks[i].text, <<NL>>) = 0
          /\ schunks[j].content_type = "text"
          /\ schunks[j].token_count > chunk_size
          /\ schunks[j].text = <<"Counterrevolutionaries", DOT>>
    /\ Len(WithType(schunks, "text")) >= 1
    /\ Len(WithType(schunks, "financial_table")) >= 2

RECURSIVE JoinedBy(_, _, _)
\* t is the units us, in their order, with one of the joiners between
\* neighbours
JoinedBy(us, t, joiners) ==
    IF Len(us) = 1 THEN t = Strip(us[1])
    ELSE /\ StartsWith(t, us[1])
         /\ \E j \in joiners :
               /\ StartsWith(SubSeq(t, Len(us[1]) + 1, Len(t)), j)
               /\ JoinedBy(Tail(us), SubSeq(t, Len(us[1]) + Len(j) + 1, Len(t)), joiners)

\* how many of the leading units make up the text t (0: no number does)
GroupSize(units, t, joiners) ==
    LET ns == {n \in 1..Len(units) : JoinedBy(SubSeq(units, 1, n), t, joiners)}
    IN  IF ns = {} THEN 0 ELSE CHOOSE n \in ns : \A m \in ns : n <= m

RECURSIVE Consumes(_, _)
\* the chunks, read in order, are the units of the runs, run after run: every
\* chunk is a group of neighbouring units of one run and every unit is in
\* exactly one chunk
Consumes(runs, chunks) ==
    IF runs = <<>> THEN chunks = <<>>
    ELSE IF Head(runs).units = <<>> THEN Consumes(Tail(runs), chunks)
    ELSE /\ chunks # <<>>
         /\ Head(chunks).content_type = Head(runs).type
         /\ LET n == GroupSize(Head(runs).units, Head(chunks).text, Head(runs).joiners)
            IN  /\ n > 0
                /\ Consumes(<<[Head(runs) EXCEPT !.units = SubSeq(@, n + 1, Len(@))]>>
                                \o Tail(runs), Tail(chunks))

\* C18: reading the chunks in order gives the units of every strategy run in
\* their input order, every unit in exactly one chunk and none repeated in a
\* neighbouring chunk.
C18_UnitsInOrder ==
    DoneStructured => Consumes(DocRuns(sections, chunk_size), schunks)

\* a table was split into several row chunks and a paragraph into several
\* sentence chunks
C18_Witness ==
    /\ DoneStructured
    /\ \E i \in 1..(Len(schunks) - 1) :
          /\ schunks[i].content_type = "financial_table"
          /\ schunks[i + 1].content_type = "financial_table"
          /\ Find(schunks[i].text, <<NL>>) # 0
    /\ \E i \in 1..(Len(schunks) - 1) :
          /\ schunks[i].content_type = "text"
          /\ schunks[i + 1].content_type = "text"
          /\ schunks[i].section_title = schunks[i + 1].section_title

RECURSIVE TokenSum(_)
\* the running count of a buffer holding the units us
TokenSum(us) == IF us = <<>> THEN 0 ELSE ntokens(Head(us)) + TokenSum(Tail(us))

RECURSIVE Greedy(_, _, _, _)
\* every chunk that follows a chunk of its own run starts with a unit that
\* did not fit: the running count of the chunk before (before: none is -1)
\* plus that unit is over size
Greedy(runs, chunks, before, size) ==
    IF runs = <<>> \/ chunks = <<>> THEN TRUE
    ELSE IF Head(runs).units = <<>> THEN Greedy(Tail(runs), chunks, -1, size)
    ELSE LET units == Head(runs).units
             n == GroupSize(units, Head(chunks).text, Head(runs).joiners)
         IN  /\ before >= 0 => before + ntokens(units[1]) > size
             /\ n > 0 =>
                   Greedy(<<[Head(runs) EXCEPT !.units = SubSeq(@, n + 1, Len(@))]>>
                              \o Tail(runs),
                          Tail(chunks), TokenSum(SubSeq(units, 1, n)), size)

\* the section has one table, which fits, and prose, which fits in total
SmallSection(section, size) ==
    /\ Len(TableSpans(section.content)) = 1
    /\ Strip(TableSpans(section.content)[1]) # <<>>
    /\ ntokens(Strip(TableSpans(section.content)[1])) <= size
    /\ Strip(ProseOf(section)) # <<>>
    /\ ntokens(Strip(ProseOf(section))) <= size

\* C19: flushes are greedy: of two neighbouring chunks of one strategy run
\* the running count of the first plus the first unit of the second is over
\* chunk_size; a section with one table that fits and prose that fits in
\* total gives exactly one table chunk and one text chunk.
C19_GreedyFlush ==
    DoneStructured =>
        /\ Greedy(DocRuns(sections, chunk_size), schunks, -1, chunk_size)
        /\ \A k \in 1..Len(sections) :
              SmallSection(sections[k], chunk_size) =>
                  LET chunks == _chunk_section(sections[k], metadata, chunk_size)
                  IN  /\ Len(chunks) = 2
                      /\ chunks[1].content_type = "financial_table"
                      /\ chunks[2].content_type = "text"

\* the document is one small section and gave one table chunk and one text
\* chunk
C19_Witness ==
    /\ DoneStructured
    /\ Len(sections) = 1
    /\ SmallSection(sections[1], chunk_size)
    /\ Len(schunks) = 2
    /\ schunks[1].content_type = "financial_table"
    /\ schunks[2].content_type = "text"

RECURSIVE Offset(_)
\* how many chunks the sections before the k-th gave
Offset(k) ==
    IF k = 1 THEN 0
    ELSE Offset(k - 1) + Len(_chunk_section(sections[k - 1], metadata, chunk_size))

\* the chunks of the document that the k-th section gave
SectionSlice(k) ==
    SubSeq(schunks, Offset(k) + 1,
           Offset(k) + Len(_chunk_section(sections[k], metadata, chunk_size)))

\* the chunks of one section: tagged with the section, table chunks first and
\* in the order of the table spans, each holding rows of its own span
OrderedSlice(section, slice) ==
    LET spans == TableSpans(section.content)
    IN  /\ \A i \in 1..Len(slice) :
              /\ slice[i].section_title = section.title
              /\ slice[i].section_level = section.level
              /\ slice[i].content_type \in {"financial_table", "text"}
        /\ \A i, j \in 1..Len(slice) :
              i < j => /\ ~(slice[i].content_type = "text"
                               /\ slice[j].content_type = "financial_table")
                       /\ (slice[i].content_type = "financial_table"
                               /\ slice[j].content_type = "financial_table")
                              => slice[i].table_index <= slice[j].table_index
        /\ \A i \in 1..Len(slice) :
              slice[i].content_type = "financial_table" =>
                  /\ slice[i].table_index + 1 \in 1..Len(spans)
                  /\ \A n \in 1..Len(slice[i].text) :
                        IsSpace(slice[i].text[n])
                            \/ Occurrences(slice[i].text[n], spans[slice[i].table_index + 1]) > 0
        /\ NonSpace(Texts(slice)) = PickTable(section.content, 1, TRUE)
                                        \o PickTable(section.content, 1, FALSE)

\* C20: the chunk list is the sections' chunk groups in section order, and
\* in every group all financial_table chunks come before all text chunks,
\* the table chunks in the order of the table spans of the section body.
C20_TablesFirst ==
    DoneStructured =>
        /\ Offset(Len(sections) + 1) = Len(schunks)
        /\ \A k \in 1..Len(sections) : OrderedSlice(sections[k], SectionSlice(k))

\* two sections gave chunks, the second the chunks of two tables and of prose
C20_Witness ==
    /\ DoneStructured
    /\ Len(sections) = 2
    /\ SectionSlice(1) # <<>>
    /\ \E i, j, n \in 1..Len(SectionSlice(2)) :
          /\ SectionSlice(2)[i].content_type = "financial_table"
          /\ SectionSlice(2)[i].table_index = 0
          /\ SectionSlice(2)[j].content_type = "financial_table"
          /\ SectionSlice(2)[j].table_index = 1
          /\ SectionSlice(2)[n].content_type = "text"

\* the chunks of one section alone: tagged with the section, made of symbols
\* of its body only, the prose chunks holding the whole prose of the body up
\* to its last symbol
OwnChunks(section, slice) ==
    LET prose == NonSpace(Strip(ProseOf(section)))
        prose_chunks == WithType(slice, "text")
    IN  /\ \A i \in 1..Len(slice) :
              /\ slice[i].section_title = section.title
              /\ slice[i].section_level = section.level
              /\ slice[i].section_type = section.type
              /\ Strip(slice[i].text) # <<>>
              /\ \A n \in 1..Len(slice[i].text) :
                    IsSpace(slice[i].text[n])
                        \/ Occurrences(slice[i].text[n], section.content) > 0
        /\ prose # <<>> =>
              /\ prose_chunks # <<>>
              /\ slice[Len(slice)].content_type = "text"
              /\ NonSpace(Texts(prose_chunks)) = prose

RECURSIVE HardBreaks(_, _)
\* the chunk list is cut at every section boundary
HardBreaks(secs, chunks) ==
    IF secs = <<>> THEN chunks = <<>>
    ELSE LET n == Len(_chunk_section(Head(secs), metadata, chunk_size))
         IN  /\ n <= Len(chunks)
             /\ OwnChunks(Head(secs), SubSeq(chunks, 1, n))
             /\ HardBreaks(Tail(secs), SubSeq(chunks, n + 1, Len(chunks)))

\* C21: a section boundary is a hard break: every chunk comes from one
\* section and carries its title, level and type; the buffer is flushed at
\* the end of every section, also below the bound, and nothing of a section
\* is in a chunk of the next.
C21_SectionHardBreak ==
    DoneStructured => HardBreaks(sections, schunks)

\* two sections whose prose is below the bound gave one text chunk each
C21_Witness ==
    /\ DoneStructured
    /\ Len(sections) = 2
    /\ Len(schunks) = 2
    /\ schunks[1].content_type = "text" /\ schunks[1].token_count < chunk_size
    /\ schunks[2].content_type = "text" /\ schunks[2].token_count < chunk_size
    /\ schunks[1].section_title # schunks[2].section_title

\* a section whose content is table spans and nothing else
TableOnly(section) ==
    /\ TableSpans(section.content) # <<>>
    /\ Strip(RemoveTableSpans(section.content)) = <<>>

\* C22: no empty chunks: every chunk of the structure-aware splitter has a
\* text that is not blank; a section with blank content gives no chunk, and
\* a section whose content is only table spans gives no text chunk (and a
\* table chunk when one of its spans is not blank).
C22_NoEmptyChunks ==
    DoneStructured =>
        /\ \A i \in 1..Len(schunks) : Strip(schunks[i].text) # <<>>
        /\ \A k \in 1..Len(sections) :
              /\ Strip(sections[k].content) = <<>> => SectionSlice(k) = <<>>
              /\ TableOnly(sections[k]) =>
                    /\ WithType(SectionSlice(k), "text") = <<>>
                    /\ (\E j \in 1..Len(TableSpans(sections[k].content)) :
                            Strip(TableSpans(sections[k].content)[j]) # <<>>)
                       => SectionSlice(k) # <<>>

\* a document with a prose section and a section that is one table: the
\* table section gave table chunks only
C22_Witness ==
    /\ DoneStructured
    /\ Len(sections) = 2
    /\ ~TableOnly(sections[1])
    /\ TableOnly(sections[2])
    /\ Len(SectionSlice(2)) > 1
    /\ \A i \in 1..Len(schunks) : Strip(schunks[i].text) # <<>>

\* C23: for every chunk built by _create_chunk, token_count is the number of
\* tokens of the chunk's text field (the trimmed text): every call of
\* _create_chunk (lines 260, 269, 276, 303, 315, 325) passes trimmed text.
C23_TokenCountOfText ==
    DoneStructured =>
        \A i \in 1..Len(schunks) : schunks[i].token_count = ntokens(schunks[i].text)

\* a table was split by rows, its last buffer of rows flushed at the end,
\* and prose was chunked after it
C23_Witness ==
    /\ DoneStructured
    /\ \E i \in 1..Len(schunks) :
          /\ schunks[i].content_type = "financial_table"
          /\ i > 1 /\ schunks[i - 1].content_type = "financial_table"
          /\ schunks[i - 1].table_index = schunks[i].table_index
          /\ schunks[i].token_count > 0
    /\ \E i \in 1..Len(schunks) :
          schunks[i].content_type = "text" /\ schunks[i].token_count > 1

DoneFlat == pc = "flat"

\* the number of windows over n tokens when the window moves on by step
WindowCount(n, step) == (n + step - 1) \div step

\* the k-th window (k from 0) of the flat splitter is the one the formula of
\* the windows gives
WindowAt(k) ==
    LET tokens == encode(text)
        step == chunk_size - chunk_overlap
        first == k * step
        last == Min(first + chunk_size, Len(tokens))
        w == fchunks[k + 1]
    IN  /\ w.metadata.start_token = first
        /\ w.metadata.end_token = last
        /\ w.metadata.token_count = last - first
        /\ w.metadata.token_count <= chunk_size
        /\ w.text = decode(SubSeq(tokens, first + 1, last))
        /\ w.metadata.chunk_id = k
        /\ w.id = Get(metadata, "company", <<"unknown">>) \o <<USCORE>>
                      \o Get(metadata, "year", <<"unknown">>) \o <<USCORE, ToString(k)>>

\* C24: flat splitter with chunk_overlap < chunk_size: window k covers the
\* tokens [k*(chunk_size-chunk_overlap), min(start + chunk_size, N)); a window
\* has at most chunk_size tokens, consecutive full windows share exactly
\* chunk_overlap tokens, every token is in a window, and window k has the id
\* company_year_k, the ids being unique.
C24_FlatWindows ==
    (DoneFlat /\ chunk_overlap < chunk_size) =>
        LET n == ntokens(text)
        IN  /\ Len(fchunks) = WindowCount(n, chunk_size - chunk_overlap)
            /\ \A k \in 0..(Len(fchunks) - 1) : WindowAt(k)
            /\ \A k \in 1..(Len(fchunks) - 1) :
                  (fchunks[k].metadata.token_count = chunk_size
                      /\ fchunks[k + 1].metadata.token_count = chunk_size)
                  => fchunks[k].metadata.end_token - fchunks[k + 1].metadata.start_token
                         = chunk_overlap
            /\ \A p \in 0..(n - 1) :
                  \E k \in 1..Len(fchunks) :
                      /\ fchunks[k].metadata.start_token <= p
                      /\ p < fchunks[k].metadata.end_token
            /\ \A j, k \in 1..Len(fchunks) : j # k => fchunks[j].id # fchunks[k].id

\* overlapping windows: two full windows in a row and a shorter last one
C24_Witness ==
    /\ DoneFlat
    /\ chunk_overlap = 1
    /\ chunk_size >= 3
    /\ Len(fchunks) >= 3
    /\ fchunks[1].metadata.token_count = chunk_size
    /\ fchunks[2].metadata.token_count = chunk_size
    /\ fchunks[Len(fchunks)].metadata.token_count < chunk_size

\* C25: the flat splitter terminates for every chunk_size and chunk_overlap
\* the processor accepts, chunk_overlap >= chunk_size included: start grows
\* on every pass through the loop.
C25_StartIncreases ==
    [][FlatIteration => start' > start]_vars

\* the same for a chunk_overlap below chunk_size
C25_StartIncreasesBelowSize ==
    [][(FlatIteration /\ chunk_overlap < chunk_size) => start' > start]_vars

\* the loop run one pass at a time gives the windows of FlatLoop
FlatLoopStepwise ==
    (pc = "windows" /\ chunk_overlap < chunk_size) =>
        fchunks = chunk_text(text, metadata, chunk_size, chunk_overlap)

\* C26: the flat splitter stops once a window has reached the end of the
\* tokens: no window lies entirely inside the window before it.
C26_NoWindowInsidePrevious ==
    chunk_overlap < chunk_size =>
        \A k \in 1..(Len(fchunks) - 1) :
            ~(/\ fchunks[k].metadata.start_token <= fchunks[k + 1].metadata.start_token
              /\ fchunks[k + 1].metadata.end_token <= fchunks[k].metadata.end_token)

RECURSIVE EmittedBlocks(_)
\* the blocks the extractor emits for a document, each with the tag of its
\* element
EmittedBlocks(elements) ==
    IF elements = <<>> THEN <<>>
    ELSE LET part == ElementPart(Head(elements))
         IN  (IF part = <<>> THEN <<>>
              ELSE <<[tag |-> Head(elements).tag, block |-> part[1]]>>)
             \o EmittedBlocks(Tail(elements))

\* a paragraph block that the assembler puts into a section's content
KeptParagraph(b) == b.tag \in {"p", "div"} /\ ~StartsWithEq(b.block)

\* C27: paragraph boundaries survive assembly: two paragraph blocks the
\* extractor emitted one after the other are still separated by a blank
\* line in the content of their section, so that the prose strategy sees
\* one paragraph per block.
C27_ParagraphBoundaries ==
    (DoneStructured /\ text = extract_text_from_html(html)) =>
        LET blocks == EmittedBlocks(html)
        IN  \A i \in 1..(Len(blocks) - 1) :
                (KeptParagraph(blocks[i]) /\ KeptParagraph(blocks[i + 1])) =>
                    \E k \in 1..Len(sections) :
                        Find(sections[k].content,
                             blocks[i].block \o <<NL, NL>> \o blocks[i + 1].block) # 0

\* what the code does: the two blocks are one line after the other in the
\* content, and the prose strategy takes them as one paragraph
C27_ParagraphsMerged ==
    (DoneStructured /\ text = extract_text_from_html(html)) =>
        LET blocks == EmittedBlocks(html)
        IN  \A i \in 1..(Len(blocks) - 1) :
                (KeptParagraph(blocks[i]) /\ KeptParagraph(blocks[i + 1])) =>
                    \E k \in 1..Len(sections) :
                        /\ Find(sections[k].content,
                                blocks[i].block \o <<NL>> \o blocks[i + 1].block) # 0
                        /\ \E j \in 1..Len(Split(sections[k].content, <<NL, NL>>)) :
                              Find(Split(sections[k].content, <<NL, NL>>)[j],
                                   blocks[i].block \o <<NL>> \o blocks[i + 1].block) # 0

RECURSIVE ChunksSum(_)
\* the chunks of all the files of a list of process_file records
ChunksSum(records) ==
    IF records = <<>> THEN 0 ELSE Head(records).chunks + ChunksSum(Tail(records))

\* C28: batch processing does not abort on a per-file failure:
\* process_directory hands every HTML file of the directory to process_file
\* exactly once, in order; a file that gave no chunks or whose upload failed
\* does not keep the later files from being processed and uploaded; at the
\* end processed_files is the number of files that gave a chunk (at most
\* total_files) and total_chunks is the sum of their chunk counts.
C28_BatchContinues ==
    /\ Len(attempted) = file_pos
    /\ \A i \in 1..Len(attempted) :
          /\ attempted[i].file = i
          /\ html_files[i].flt # "none" => attempted[i].chunks = 0
          /\ attempted[i].chunks > 0 => attempted[i].documents = attempted[i].chunks
    /\ batch_pc = "embed" =>
          /\ file_pos < Len(html_files)
          /\ file_chunks # <<>>
          /\ Len(documents) <= Len(file_chunks)
    /\ (batch_pc = "returned" /\ html_files # <<>>) =>
          /\ Len(html_files)
                 = Cardinality({i \in 1..Len(directory.entries) :
                                   Suffix(directory.entries[i].name) \in {".htm", ".html"}})
          /\ Len(attempted) = Len(html_files)
          /\ summary.total_files = Len(html_files)
          /\ summary.processed_files
                 = Cardinality({i \in 1..Len(attempted) : attempted[i].chunks > 0})
          /\ summary.processed_files <= summary.total_files
          /\ summary.total_chunks = ChunksSum(attempted)

\* a directory of three HTML files: process_file failed on the first, the
\* upload of the second raised, the third, listed last for its .html
\* suffix, was processed and uploaded, the embedding call of its first chunk
\* having raised and the one of its second not
C28_Witness ==
    /\ batch_pc = "returned"
    /\ Len(html_files) = 3
    /\ html_files[1].flt = "read"
    /\ Suffix(directory.entries[1].name) = ".html"
    /\ html_files[3] = directory.entries[1]
    /\ attempted[1].chunks = 0
    /\ attempted[2].chunks > 0 /\ attempted[2].uploaded = 0
    /\ attempted[3].chunks > 0 /\ attempted[3].uploaded = attempted[3].chunks
    /\ summary.processed_files = 2
    /\ summary.search_documents = attempted[3].chunks
    /\ Len(documents) = 2
    /\ documents[1].vector = "zeros" /\ documents[2].vector = "embedding"
    /\ documents[2].processed_date \in Dates /\ documents[2].company = "None"

RECURSIVE WalkFrom(_, _, _)
\* the loop of extract_text_from_html run alone from its k-th element on
WalkFrom(tree, k, st) ==
    IF k > Len(all_elements(tree)) THEN st
    ELSE WalkFrom(tree, k + 1, VisitElement(tree, all_elements(tree)[k], st))

\* what process_file returns for a document when it runs alone
AloneResult(tree, name, now) ==
    LET st == WalkFrom(tree, 1, [text_parts |-> <<>>, processed_elements |-> {},
                                 emitters |-> {}])
    IN  chunk_text(Join(st.text_parts, <<NL, NL>>), extract_metadata(name, now),
                   chunk_size, chunk_overlap)

\* the steps of the two calls were interleaved: each call took a step
\* between two steps of the other
Interleaved ==
    \E i, j, k, l \in 1..Len(call_order) :
        /\ i < j /\ j < k /\ k < l
        /\ call_order[i] = 1 /\ call_order[j] = 2
        /\ call_order[k] = 1 /\ call_order[l] = 2

\* C29: documents are independent: however the steps of two process_file
\* calls on one DocumentProcessor are interleaved, each call returns the
\* chunks it returns when it runs alone; the processed-element set and the
\* buffers are per call.
C29_CallsIndependent ==
    \A c \in DOMAIN calls :
        /\ calls[c].processed_elements \subseteq 1..Len(calls[c].soup)
        /\ calls[c].pc = "returned" =>
              calls[c].result = AloneResult(calls[c].soup, calls[c].name, calls[c].now)

\* both calls returned chunks after an interleaved run in which each of them
\* marked elements as processed
C29_Witness ==
    /\ calls # <<>>
    /\ \A c \in CallIds :
          /\ calls[c].pc = "returned"
          /\ calls[c].result # <<>>
          /\ calls[c].processed_elements # {}
    /\ calls[1].result # calls[2].result
    /\ Interleaved

\* the positions of the GET attempts in the events of the call
Gets == {i \in 1..Len(events) : events[i].kind = "get"}

Failed(i) == events[i].kind = "get" /\ events[i].outcome \in RequestExceptions

\* C30: _make_request(url, retries) makes at most retries GET attempts; it
\* returns the response of the first successful attempt and makes no attempt
\* after it; it sleeps the backoff of 2^attempt seconds only between a
\* failed attempt and the next one, never after the last; it returns None
\* exactly when every attempt failed.
C30_MakeRequest ==
    /\ Cardinality(Gets) <= retries
    /\ \A i \in Gets :
          events[i].outcome = "ok" =>
              /\ i = Len(events)
              /\ req_pc = "returned"
              /\ response = "Response " \o url
    /\ \A i \in 1..Len(events) :
          events[i].kind = "backoff" =>
              /\ i > 1 /\ Failed(i - 1)
              /\ events[i].seconds = 2 ^ events[i - 1].attempt
              /\ events[i - 1].attempt < retries - 1
              /\ i < Len(events) => events[i + 1].kind = "sleep"
              /\ i + 1 < Len(events) =>
                    /\ events[i + 2].kind = "get"
                    /\ events[i + 2].attempt = events[i - 1].attempt + 1
              /\ i = Len(events) => req_pc = "loop"
    /\ \A i \in Gets :
          /\ i > 1 /\ events[i - 1].kind = "sleep" /\ events[i - 1].seconds = "0.1"
          /\ (Failed(i) /\ i < Len(events)) => events[i + 1].kind = "backoff"
          /\ (Failed(i) /\ i = Len(events)) => req_pc \in {"except", "returned"}
    /\ req_pc = "except" => Len(events) \in Gets /\ Failed(Len(events))
    /\ req_pc = "returned" =>
          /\ response = "None" <=> \A i \in Gets : Failed(i)
          /\ response = "None" => Cardinality(Gets) = retries

\* the third attempt succeeded after two failed ones, with backoffs of 1 and
\* 2 seconds between them
C30_Witness ==
    /\ req_pc = "returned"
    /\ response # "None"
    /\ Cardinality(Gets) = 3
    /\ \E i, j \in 1..Len(events) :
          /\ i < j
          /\ events[i].kind = "backoff" /\ events[i].seconds = 1
          /\ events[j].kind = "backoff" /\ events[j].seconds = 2

====
